---- MODULE Spec2Model ----
(***************************************************************************)
(* Model of crates/anvil-arbitrum: the 0x7e deposit transaction codec,     *)
(* validator and processor (tx7e.rs) and the 256-bit integer type          *)
(* (precompiles.rs).                                                       *)
(*                                                                         *)
(* Representation.  TLC's integers are 32 bits wide, so every fixed-width  *)
(* machine integer wider than that is kept as the big-endian byte string   *)
(* the program itself converts it to: a u64 is a sequence of 8 bytes, a    *)
(* U256 the 32 bytes of its [u8; 32], an Address the 20 bytes of its       *)
(* [u8; 20].  Byte strings (Vec<u8>, &[u8]) are sequences over 0..255.     *)
(***************************************************************************)
EXTENDS Integers, Sequences, FiniteSets, TLC

(***************************************************************************)
(* Bounds of the model.                                                    *)
(***************************************************************************)
\* how many fields of the envelope the caller changes away from the mock one
MaxEdits == 2
\* length of the long calldata string (a string of more than 55 bytes)
LongDataLen == 56
\* how many items of the encoded list the sender changes, drops or adds, and
\* how many changes it makes to the framing
MaxWireEdits == 2
\* how many bytes are appended after the list, or cut off its end
MaxTrailing == 1
\* how many extra items the over-long list carries
MaxExtraItems == 1

\* how many fields of the default configuration the caller sets
MaxConfigEdits == 2

\* how many changes turn an address literal into the string from_hex reads
MaxHexEdits == 2

(***************************************************************************)
(* Program constants.                                                      *)
(***************************************************************************)
TX_TYPE_0X7E == 126
ADDRESS_LEN == 20
U256_LEN == 32
HASH_LEN == 32
TX7E_FIELDS == 13
BASE_GAS == 21000
GAS_PER_DATA_BYTE == 16
VALUE_TRANSFER_GAS == 9000

(***************************************************************************)
(* Byte strings.                                                           *)
(***************************************************************************)
Byte == 0..255

Rep(b, n) == [i \in 1..n |-> b]

Min(x, y) == IF x <= y THEN x ELSE y

\* s[from..to], 1-based, empty when from > to
Slice(s, from, to) == IF from > to THEN <<>> ELSE SubSeq(s, from, to)

\* the bytes of s after its first n
Drop(s, n) == Slice(s, n + 1, Len(s))

\* the first n bytes of s
Take(s, n) == Slice(s, 1, Min(n, Len(s)))

\* F applied to the value of v, which is computed once: let x = v in F(x)
With(v, F(_)) == CHOOSE r \in {F(x) : x \in {v}} : TRUE

\* F(lo) + F(lo + 1) + ... + F(hi), 0 when lo > hi
SumOver(lo, hi, F(_)) ==
    LET upTo[n \in (lo - 1)..hi] == IF n < lo THEN 0 ELSE upTo[n - 1] + F(n)
    IN  IF hi < lo THEN 0 ELSE upTo[hi]

\* the least element of a non-empty set of numbers
Least(S) == CHOOSE x \in S : \A y \in S : x <= y

\* the byte strings of ss one after the other
Concat(ss) ==
    LET upTo[k \in 0..Len(ss)] == IF k = 0 THEN <<>> ELSE upTo[k - 1] \o ss[k]
    IN  upTo[Len(ss)]

\* a byte string without its leading zero bytes
StripZeros(s) ==
    With({i \in 1..Len(s) : s[i] # 0},
         LAMBDA nz : IF nz = {} THEN <<>> ELSE SubSeq(s, Least(nz), Len(s)))

\* s left-padded with zero bytes to n bytes (Len(s) <= n)
PadLeft(s, n) == Rep(0, n - Len(s)) \o s

\* the n-byte big-endian representation of a number below 2^31 (to_be_bytes)
NatToBE(v, n) ==
    [i \in 1..n |-> IF n - i >= 4 THEN 0 ELSE (v \div (256 ^ (n - i))) % 256]

\* the value of a big-endian byte string of at most 3 bytes
BEToNat(s) ==
    LET upTo[k \in 0..Len(s)] == IF k = 0 THEN 0 ELSE upTo[k - 1] * 256 + s[k]
    IN  upTo[Len(s)]

\* a length no buffer of the model reaches: stands for every usize >= 2^24
HugeLen == 16777216

(***************************************************************************)
(* Results: Ok(v) / Err(e) of Result<T, E>.  val is read only when ok.     *)
(***************************************************************************)
Ok(v) == [ok |-> TRUE, err |-> "", val |-> v]

Err(e) == [ok |-> FALSE, err |-> e, val |-> <<>>]

(***************************************************************************)
(* The rlp crate as tx7e.rs uses it: RlpStream (begin_list, append of u64  *)
(* and of Vec<u8>) and Rlp (item_count, val_at of u64 and of Vec<u8>).     *)
(***************************************************************************)
\* the minimal big-endian bytes of a length (a usize below 2^24 in the model)
LenBytes(n) == StripZeros(NatToBE(n, 3))

\* RlpStream's encoding of a byte string: append(&Vec<u8>)
EncodeValue(b) ==
    IF Len(b) = 0 THEN <<128>>
    ELSE IF Len(b) = 1 /\ b[1] < 128 THEN b
    ELSE IF Len(b) <= 55 THEN <<128 + Len(b)>> \o b
    ELSE With(LenBytes(Len(b)), LAMBDA n : <<183 + Len(n)>> \o n \o b)

\* RlpStream's encoding of a u64: its big-endian bytes without leading zeros
EncodeU64(u) == EncodeValue(StripZeros(u))

\* the header RlpStream puts before the payload of a finished list
ListHeader(n) ==
    IF n <= 55 THEN <<192 + n>>
    ELSE With(LenBytes(n), LAMBDA l : <<247 + Len(l)>> \o l)

\* a list of already encoded items
EncodeList(its) == With(Concat(its), LAMBDA payload : ListHeader(Len(payload)) \o payload)

\* decode_usize: the length field of a long header (1..8 bytes)
DecodeUsize(s) ==
    IF s[1] = 0 THEN Err("RlpInvalidIndirection")
    ELSE IF Len(s) <= 3 THEN Ok(BEToNat(s))
    ELSE Ok(HugeLen)

PInfo(h, v) == [ok |-> TRUE, err |-> "", header_len |-> h, value_len |-> v]

PErr(e) == [ok |-> FALSE, err |-> e, header_len |-> 0, value_len |-> 0]

\* calculate_payload_info: a header with a length-of-length
CalculatePayloadInfo(bytes, len_of_len) ==
    IF Len(bytes) < 2 THEN PErr("RlpIsTooShort")
    ELSE IF bytes[2] = 0 THEN PErr("RlpDataLenWithZeroPrefix")
    ELSE IF Len(bytes) < 1 + len_of_len THEN PErr("RlpIsTooShort")
    ELSE With(DecodeUsize(SubSeq(bytes, 2, 1 + len_of_len)),
              LAMBDA n : IF ~n.ok THEN PErr(n.err)
                         ELSE IF n.val <= 55 THEN PErr("RlpInvalidIndirection")
                         ELSE PInfo(1 + len_of_len, n.val))

\* PayloadInfo::from: header and value length read off the first bytes
PayloadInfoFrom(bytes) ==
    IF bytes = <<>> THEN PErr("RlpIsTooShort")
    ELSE With(bytes[1],
              LAMBDA l : IF l <= 127 THEN PInfo(0, 1)
                         ELSE IF l <= 183 THEN PInfo(1, l - 128)
                         ELSE IF l <= 191 \/ l >= 248
                              THEN CalculatePayloadInfo(bytes, IF l <= 191 THEN l - 183
                                                                            ELSE l - 247)
                         ELSE PInfo(1, l - 192))

\* BasicDecoder::payload_info: the item must lie within the bytes
PayloadInfo(bytes) ==
    With(PayloadInfoFrom(bytes),
         LAMBDA p : IF ~p.ok THEN p
                    ELSE IF p.header_len + p.value_len <= Len(bytes) THEN p
                    ELSE PErr("RlpIsTooShort"))

\* Rlp::is_list
IsList(bytes) == bytes # <<>> /\ bytes[1] >= 192

\* Rlp::consume_list_payload: the bytes between the list header and its end
ListPayload(bytes) ==
    With(PayloadInfo(bytes),
         LAMBDA p : IF ~p.ok THEN Err(p.err)
                    ELSE Ok(Slice(bytes, p.header_len + 1, p.header_len + p.value_len)))

\* the items Rlp::at(0), at(1), ... yield before the first failure
SplitItems(payload) ==
    LET from[off \in 0..Len(payload)] ==
            With(PayloadInfo(Drop(payload, off)),
                 LAMBDA p : IF ~p.ok THEN <<>>
                            ELSE <<Slice(payload, off + 1, off + p.header_len + p.value_len)>>
                                 \o from[off + p.header_len + p.value_len])
    IN  from[0]

\* the items of a list, as RlpIterator walks them
ListItems(bytes) ==
    With(ListPayload(bytes),
         LAMBDA pl : IF ~IsList(bytes) \/ ~pl.ok THEN <<>> ELSE SplitItems(pl.val))

\* Rlp::item_count
ItemCount(bytes) ==
    IF ~IsList(bytes) THEN Err("RlpExpectedToBeList")
    ELSE Ok(Len(ListItems(bytes)))

\* the long-string case of decode_value: the header carries len_of_len
\* length bytes
DecodeLongValue(item, len_of_len) ==
    IF Len(item) < 1 + len_of_len THEN Err("RlpInconsistentLengthAndData")
    ELSE With(DecodeUsize(SubSeq(item, 2, 1 + len_of_len)),
              LAMBDA n : IF ~n.ok THEN Err(n.err)
                         ELSE IF Len(item) < 1 + len_of_len + n.val
                              THEN Err("RlpInconsistentLengthAndData")
                         ELSE Ok(Slice(item, 2 + len_of_len, 1 + len_of_len + n.val)))

\* decode_value taking a single byte below 0x80 behind the header 0x81
DecodeValueIndirect(item) ==
    IF item = <<>> THEN Err("RlpIsTooShort")
    ELSE With(item[1],
              LAMBDA l : IF l <= 127 THEN Ok(<<l>>)
                         ELSE IF l <= 183 THEN
                             IF Len(item) < 1 + (l - 128)
                             THEN Err("RlpInconsistentLengthAndData")
                             ELSE Ok(Slice(item, 2, 1 + (l - 128)))
                         ELSE IF l <= 191 THEN DecodeLongValue(item, l - 183)
                         ELSE Err("RlpExpectedToBeData"))

\* Decoder::decode_value: the data bytes of one item
DecodeValue(item) ==
    IF item = <<>> THEN Err("RlpIsTooShort")
    ELSE With(item[1],
              LAMBDA l : IF l <= 127 THEN Ok(<<l>>)
                         ELSE IF l <= 183 THEN
                             IF Len(item) < 1 + (l - 128)
                             THEN Err("RlpInconsistentLengthAndData")
                             ELSE IF l = 129 /\ item[2] < 128
                             THEN Err("RlpInvalidIndirection")
                             ELSE Ok(Slice(item, 2, 1 + (l - 128)))
                         ELSE IF l <= 191 THEN DecodeLongValue(item, l - 183)
                         ELSE Err("RlpExpectedToBeData"))

\* <Vec<u8> as Decodable>::decode
DecodeBytes(item) == DecodeValue(item)

\* <u64 as Decodable>::decode, the value as its 8 big-endian bytes
DecodeU64(item) ==
    With(DecodeValue(item),
         LAMBDA d : IF ~d.ok THEN d
                    ELSE IF Len(d.val) = 0 THEN Ok(Rep(0, 8))
                    ELSE IF Len(d.val) = 1 THEN
                        IF d.val[1] # 0 THEN Ok(PadLeft(d.val, 8))
                        ELSE Err("RlpInvalidIndirection")
                    ELSE IF Len(d.val) <= 8 THEN
                        IF d.val[1] = 0 THEN Err("RlpInvalidIndirection")
                        ELSE Ok(PadLeft(d.val, 8))
                    ELSE Err("RlpIsTooBig"))

(***************************************************************************)
(* U256 and Address (precompiles.rs): the conversions the codec uses.      *)
(***************************************************************************)
\* U256::zero
U256Zero == Rep(0, U256_LEN)

\* U256::max_value
U256Max == Rep(255, U256_LEN)

\* U256::from_big_endian: left-pads a short input, keeps the first 32 bytes
\* of a long one
FromBigEndian(bytes) == PadLeft(Take(bytes, U256_LEN), U256_LEN)

\* U256::to_big_endian
ToBigEndian(u) == u

\* U256::from_u64
FromU64(u) == Rep(0, U256_LEN - 8) \o u

\* the u16 `sum` of every round of the loop `for i in (0..32).rev()`:
\* sum[i] = self.0[i] + other.0[i] + carry, the carry being sum >> 8 of the
\* round before (bytes are numbered 1..32 here, round 33 stands for carry = 0)
AddRounds(a, b) ==
    LET sum[i \in 1..(U256_LEN + 1)] ==
            IF i = U256_LEN + 1 THEN 0 ELSE a[i] + b[i] + (sum[i + 1] \div 256)
    IN  [i \in 1..U256_LEN |-> sum[i]]

\* the (result, carry > 0) the loop leaves
AddResult(rounds) ==
    [res |-> [i \in 1..U256_LEN |-> rounds[i] % 256], overflow |-> rounds[1] \div 256 > 0]

\* U256::overflowing_add
OverflowingAdd(a, b) == AddResult(AddRounds(a, b))

\* if overflow { Self::max_value() } else { res }
Saturate(r) == IF r.overflow THEN U256Max ELSE r.res

\* the + operator saturating as saturating_add does
AddSaturates(a, b) ==
    IF AddResult(AddRounds(a, b)).overflow THEN Rep(255, U256_LEN)
    ELSE AddResult(AddRounds(a, b)).res

\* impl Add for U256: the same loop, the last carry dropped
Add(a, b) == AddResult(AddRounds(a, b)).res

(***************************************************************************)
(* u64 and u128 arithmetic of saturating_mul.  A u64 is its 8 big-endian   *)
(* bytes, a u128 its 16; an operation gives the bytes d of the result      *)
(* modulo the width and the carry c out of the width (c > 0: the           *)
(* operation overflows its type).                                          *)
(***************************************************************************)
\* the columns cols (most significant first) with the carries propagated
Carried(cols) ==
    With(cols \o <<>>,
         LAMBDA cs :
             LET sum[k \in 1..(Len(cs) + 1)] ==
                     IF k = Len(cs) + 1 THEN 0 ELSE cs[k] + (sum[k + 1] \div 256)
             IN  [d |-> [k \in 1..Len(cs) |-> sum[k] % 256] \o <<>>,
                  c |-> IF Len(cs) = 0 THEN 0 ELSE sum[1] \div 256])

\* (x as u128) * (y as u128) for u64 x and y: 16 bytes, never overflows
MulU64(x, y) ==
    Carried([k \in 1..16 |->
                SumOver(IF k > 9 THEN k - 8 ELSE 1, IF k > 8 THEN 8 ELSE k - 1,
                        LAMBDA p : x[p] * y[k - p])]).d

\* (r as u128) + product + (carry as u128) in u128
AddU128(r, product, carry) ==
    Carried([k \in 1..16 |-> product[k] + (IF k > 8 THEN r[k - 8] + carry[k - 8] ELSE 0)])

\* x + y in u64
AddU64(x, y) == Carried([k \in 1..8 |-> x[k] + y[k]])

\* U256::to_u64_limbs: limbs[0] is the least significant
ToU64Limbs(u) == [i \in 1..4 |-> SubSeq(u, 25 - 8 * (i - 1), 32 - 8 * (i - 1))]

\* U256::from_u64_limbs
FromU64Limbs(limbs) == limbs[4] \o limbs[3] \o limbs[2] \o limbs[1]

\* res_limbs[i + 4] += carry, after the last j of row i
RowEnd(st, i, j) ==
    IF j < 3 THEN st
    ELSE With(AddU64(st.res_limbs[i + 5], st.carry),
              LAMBDA t : [st EXCEPT !.res_limbs[i + 5] = t.d,
                                    !.overflow = st.overflow \/ t.c > 0])

\* one round of the inner loop of saturating_mul (i, j in 0..3)
MulRound(st, a_limbs, b_limbs, i, j) ==
    With(AddU128(st.res_limbs[i + j + 1], MulU64(a_limbs[i + 1], b_limbs[j + 1]),
                 IF j = 0 THEN Rep(0, 8) ELSE st.carry),
         LAMBDA sum : RowEnd([res_limbs |-> [st.res_limbs EXCEPT ![i + j + 1] = SubSeq(sum.d, 9, 16)],
                              carry     |-> SubSeq(sum.d, 1, 8),
                              overflow  |-> st.overflow \/ sum.c > 0], i, j))

\* the 4x4 loop: res_limbs after it, and whether an addition overflowed
MulLimbs(a_limbs, b_limbs) ==
    LET row[i \in 0..4] ==
            IF i = 0
            THEN [res_limbs |-> [n \in 1..8 |-> Rep(0, 8)], carry |-> Rep(0, 8),
                  overflow |-> FALSE]
            ELSE With(row[i - 1],
                      LAMBDA start :
                          LET col[j \in 0..4] ==
                                  IF j = 0 THEN start
                                  ELSE With(col[j - 1],
                                            LAMBDA st : MulRound(st, a_limbs, b_limbs,
                                                                 i - 1, j - 1))
                          IN  col[4])
    IN  row[4]

\* the check of limbs 5..7 only
UpperLimbsSetButOne(res_limbs) == \E n \in 6..8 : res_limbs[n] # Rep(0, 8)

\* res_limbs[4..8].iter().any(|&x| x != 0)
UpperLimbsSet(res_limbs) == \E n \in 5..8 : res_limbs[n] # Rep(0, 8)

\* the value saturating_mul returns from res_limbs
MulValue(res_limbs) ==
    IF UpperLimbsSet(res_limbs) THEN U256Max ELSE FromU64Limbs(res_limbs)

\* U256::saturating_mul
SaturatingMul(a, b) == MulValue(MulLimbs(ToU64Limbs(a), ToU64Limbs(b)).res_limbs)

\* saturating_add returning the wrapped result
SaturatingAddWraps(a, b) == OverflowingAdd(a, b).res

\* U256::saturating_add
SaturatingAdd(a, b) == Saturate(OverflowingAdd(a, b))

(***************************************************************************)
(* Address::from_hex.  A &str is the sequence of its characters, each one  *)
(* the bytes of its UTF-8 encoding: str::len counts bytes, strip_prefix    *)
(* compares characters, chunks(2) cuts the bytes.                          *)
(***************************************************************************)
\* str::as_bytes
AsBytes(str) == Concat(str)

\* the &str of an ASCII byte string
AsciiStr(bytes) == [i \in 1..Len(bytes) |-> <<bytes[i]>>]

\* hex.strip_prefix("0x").unwrap_or(hex): "0x" is 0x30 0x78, removed once
StripPrefix0x(str) ==
    IF Len(str) >= 2 /\ str[1] = <<48>> /\ str[2] = <<120>> THEN Drop(str, 2) ELSE str

\* slice::chunks(2)
Chunks2(bytes) ==
    [i \in 1..((Len(bytes) + 1) \div 2) |-> Slice(bytes, 2 * i - 1, Min(2 * i, Len(bytes)))]

\* std::str::from_utf8 succeeds on a chunk of one or two bytes: ASCII bytes,
\* or one character of two bytes (a lead byte C2..DF and a continuation
\* byte 80..BF)
FromUtf8Ok(chunk) ==
    \/ \A k \in 1..Len(chunk) : chunk[k] < 128
    \/ Len(chunk) = 2 /\ chunk[1] \in 194..223 /\ chunk[2] \in 128..191

\* char::to_digit(16) of a byte: -1 stands for None
ToDigit16(b) ==
    IF b \in 48..57 THEN b - 48
    ELSE IF b \in 97..102 THEN b - 87
    ELSE IF b \in 65..70 THEN b - 55
    ELSE -1

\* the digits u8::from_str_radix reads: a leading '+' (0x2B) followed by
\* something is skipped, a '-' is not (u8 is unsigned)
RadixDigits(src) ==
    IF Len(src) > 1 /\ src[1] = 43 THEN Drop(src, 1) ELSE src

\* u8::from_str_radix(src, 16)
FromStrRadix16(src) ==
    IF src = <<>> THEN Err(<<"cannot parse integer from empty string">>)
    ELSE With(RadixDigits(src),
              LAMBDA ds :
                  IF \E k \in 1..Len(ds) : ToDigit16(ds[k]) = -1
                  THEN Err(<<"invalid digit found in string">>)
                  ELSE With(SumOver(1, Len(ds), LAMBDA k : ToDigit16(ds[k]) * 16 ^ (Len(ds) - k)),
                            LAMBDA n : IF n > 255
                                       THEN Err(<<"number too large to fit in target type">>)
                                       ELSE Ok(n)))

\* one round of the loop of from_hex: the byte of a chunk
ChunkByte(chunk) ==
    IF FromUtf8Ok(chunk) THEN FromStrRadix16(chunk) ELSE Err(<<"invalid utf-8 sequence">>)

\* the loop of from_hex over the chunks: the first error, or the 20 bytes
HexBytes(chunks) ==
    With([i \in 1..Min(Len(chunks), ADDRESS_LEN) |-> ChunkByte(chunks[i])],
         LAMBDA r : With({i \in DOMAIN r : ~r[i].ok},
                         LAMBDA bad : IF bad # {} THEN Err(r[Least(bad)].err)
                                      ELSE Ok([i \in 1..ADDRESS_LEN |->
                                                  IF i \in DOMAIN r THEN r[i].val ELSE 0])))

\* Address::from_hex
FromHex(str) ==
    With(AsBytes(StripPrefix0x(str)),
         LAMBDA bytes : IF Len(bytes) # 40 THEN Err(<<"Invalid address length">>)
                        ELSE HexBytes(Chunks2(bytes)))

(***************************************************************************)
(* Tx7eTransaction: the 13 fields, rlp_append, rlp_encode, hash, decode.   *)
(***************************************************************************)
\* rlp_append with the target and the refund address appended in each
\* other's place
RlpItemsSwapped(t) ==
    << EncodeU64(t.chain_id),
       EncodeValue(t.refund_address),
       EncodeValue(ToBigEndian(t.value)),
       EncodeValue(t.data),
       EncodeU64(t.gas_limit),
       EncodeU64(t.l1_block_number),
       EncodeU64(t.l1_timestamp),
       EncodeValue(ToBigEndian(t.l1_base_fee)),
       EncodeValue(ToBigEndian(t.l1_gas_price)),
       EncodeU64(t.l1_gas_used),
       EncodeValue(ToBigEndian(t.l1_fee)),
       EncodeValue(t.target),
       EncodeValue(t.source_hash) >>

\* Encodable::rlp_append: the 13 items in their fixed order
RlpItems(t) ==
    << EncodeU64(t.chain_id),
       EncodeValue(t.target),
       EncodeValue(ToBigEndian(t.value)),
       EncodeValue(t.data),
       EncodeU64(t.gas_limit),
       EncodeU64(t.l1_block_number),
       EncodeU64(t.l1_timestamp),
       EncodeValue(ToBigEndian(t.l1_base_fee)),
       EncodeValue(ToBigEndian(t.l1_gas_price)),
       EncodeU64(t.l1_gas_used),
       EncodeValue(ToBigEndian(t.l1_fee)),
       EncodeValue(t.refund_address),
       EncodeValue(t.source_hash) >>

\* Tx7eTransaction::rlp_encode
RlpEncode(t) == EncodeList(RlpItems(t))

\* Keccak256 as an injective function of its input: the digest is named by
\* the bytes that were hashed, so two digests are equal iff their inputs are
Keccak256(bytes) == [keccak256 |-> bytes]

\* Tx7eTransaction::hash
Hash(t) == Keccak256(RlpEncode(t))

\* the first error of a sequence of results, or "" when all are Ok
FirstErr(rs) ==
    With({i \in 1..Len(rs) : ~rs[i].ok},
         LAMBDA bad : IF bad = {} THEN "" ELSE rs[Least(bad)].err)

\* the reads rlp.val_at(0)? .. rlp.val_at(12)?, in the order of the code
ReadFields(it) ==
    << DecodeU64(it[1]), DecodeBytes(it[2]), DecodeBytes(it[3]), DecodeBytes(it[4]),
       DecodeU64(it[5]), DecodeU64(it[6]), DecodeU64(it[7]), DecodeBytes(it[8]),
       DecodeBytes(it[9]), DecodeU64(it[10]), DecodeBytes(it[11]), DecodeBytes(it[12]),
       DecodeBytes(it[13]) >>

\* the conversions of decode, f being the results of the 13 reads
BuildTx(f) ==
    [ chain_id        |-> f[1].val,
      target          |-> f[2].val,
      value           |-> FromBigEndian(f[3].val),
      data            |-> f[4].val,
      gas_limit       |-> f[5].val,
      l1_block_number |-> f[6].val,
      l1_timestamp    |-> f[7].val,
      l1_base_fee     |-> FromBigEndian(f[8].val),
      l1_gas_price    |-> FromBigEndian(f[9].val),
      l1_gas_used     |-> f[10].val,
      l1_fee          |-> FromBigEndian(f[11].val),
      refund_address  |-> f[12].val,
      source_hash     |-> f[13].val ]

\* decode with the refund address check made on the target bytes
DecodeFieldsTargetTwice(f) ==
    IF FirstErr(f) # "" THEN Err(<<FirstErr(f)>>)
    ELSE IF Len(f[2].val) # ADDRESS_LEN
         THEN Err(<<"Custom(", "Invalid target address length", ")">>)
    ELSE IF Len(f[2].val) # ADDRESS_LEN
         THEN Err(<<"Custom(", "Invalid refund address length", ")">>)
    ELSE IF Len(f[13].val) # HASH_LEN
         THEN Err(<<"Custom(", "Invalid source hash length", ")">>)
    ELSE Ok(BuildTx(f))

\* decode after the arity check: the 13 reads, the three length checks and
\* the conversions, f being the results of the reads
DecodeFields(f) ==
    IF FirstErr(f) # "" THEN Err(<<FirstErr(f)>>)
    ELSE IF Len(f[2].val) # ADDRESS_LEN
         THEN Err(<<"Custom(", "Invalid target address length", ")">>)
    ELSE IF Len(f[12].val) # ADDRESS_LEN
         THEN Err(<<"Custom(", "Invalid refund address length", ")">>)
    ELSE IF Len(f[13].val) # HASH_LEN
         THEN Err(<<"Custom(", "Invalid source hash length", ")">>)
    ELSE Ok(BuildTx(f))

\* decode with the arity check `rlp.item_count()? < 13`
DecodeAtLeast(rlp) ==
    With(ItemCount(rlp),
         LAMBDA n : IF ~n.ok THEN Err(<<n.err>>)
                    ELSE IF n.val < TX7E_FIELDS THEN Err(<<"RlpIncorrectListLen">>)
                    ELSE With(ListItems(rlp),
                              LAMBDA it : With(ReadFields(it), DecodeFields)))

\* <Tx7eTransaction as Decodable>::decode
Decode(rlp) ==
    With(ItemCount(rlp),
         LAMBDA n : IF ~n.ok THEN Err(<<n.err>>)
                    ELSE IF n.val # TX7E_FIELDS THEN Err(<<"RlpIncorrectListLen">>)
                    ELSE With(ListItems(rlp),
                              LAMBDA it : With(ReadFields(it), DecodeFields)))

(***************************************************************************)
(* Tx7eParser.  A String is the sequence of the pieces it is formatted     *)
(* from; the empty String is <<>>.                                         *)
(***************************************************************************)
HexDigit == <<"0", "1", "2", "3", "4", "5", "6", "7",
              "8", "9", "a", "b", "c", "d", "e", "f">>

\* format!("{:02x}", b)
Hex02(b) == <<HexDigit[(b \div 16) + 1], HexDigit[(b % 16) + 1]>>

\* the result of parse once the body is handed to decode
ParseBody(d) ==
    IF d.ok
    THEN [ok |-> TRUE, err |-> <<>>, val |-> d.val, decoded |-> TRUE]
    ELSE [ok |-> FALSE, err |-> <<"RLP decoding failed: ">> \o d.err, val |-> <<>>,
          decoded |-> TRUE]

\* parse without the check of the type byte
ParseAnyType(raw_tx) ==
    IF raw_tx = <<>>
    THEN [ok |-> FALSE, err |-> <<"Empty transaction data">>, val |-> <<>>,
          decoded |-> FALSE]
    ELSE With(Decode(Drop(raw_tx, 1)), ParseBody)

\* Tx7eParser::parse.  decoded tells whether Tx7eTransaction::decode ran.
Parse(raw_tx) ==
    IF raw_tx = <<>>
    THEN [ok |-> FALSE, err |-> <<"Empty transaction data">>, val |-> <<>>,
          decoded |-> FALSE]
    ELSE IF raw_tx[1] # TX_TYPE_0X7E
    THEN [ok |-> FALSE,
          err |-> <<"Invalid transaction type: expected 0x7e, got 0x">> \o Hex02(raw_tx[1]),
          val |-> <<>>, decoded |-> FALSE]
    ELSE With(Decode(Drop(raw_tx, 1)), ParseBody)

\* errors.push(msg) when the check is violated
PushIf(errors, violated, msg) == IF violated THEN Append(errors, msg) ELSE errors

\* validate_transaction returning at the first violated check
ValidateFirstOnly(t) ==
    IF t.chain_id = Rep(0, 8)
    THEN [isValid |-> FALSE, errors |-> <<"Invalid chain ID: cannot be zero">>]
    ELSE IF t.target = Rep(0, ADDRESS_LEN)
    THEN [isValid |-> FALSE, errors |-> <<"Invalid target address: cannot be zero address">>]
    ELSE IF t.gas_limit = Rep(0, 8)
    THEN [isValid |-> FALSE, errors |-> <<"Invalid gas limit: cannot be zero">>]
    ELSE IF t.l1_block_number = Rep(0, 8)
    THEN [isValid |-> FALSE, errors |-> <<"Invalid L1 block number: cannot be zero">>]
    ELSE IF t.l1_timestamp = Rep(0, 8)
    THEN [isValid |-> FALSE, errors |-> <<"Invalid L1 timestamp: cannot be zero">>]
    ELSE IF t.l1_base_fee = U256Zero
    THEN [isValid |-> FALSE, errors |-> <<"Invalid L1 base fee: cannot be zero">>]
    ELSE IF t.source_hash = Rep(0, HASH_LEN)
    THEN [isValid |-> FALSE, errors |-> <<"Invalid source hash: cannot be zero">>]
    ELSE [isValid |-> TRUE, errors |-> <<>>]

\* Tx7eParser::validate_transaction
ValidateTransaction(t) ==
    With(PushIf(PushIf(PushIf(PushIf(PushIf(PushIf(PushIf(<<>>,
             t.chain_id = Rep(0, 8), "Invalid chain ID: cannot be zero"),
             t.target = Rep(0, ADDRESS_LEN), "Invalid target address: cannot be zero address"),
             t.gas_limit = Rep(0, 8), "Invalid gas limit: cannot be zero"),
             t.l1_block_number = Rep(0, 8), "Invalid L1 block number: cannot be zero"),
             t.l1_timestamp = Rep(0, 8), "Invalid L1 timestamp: cannot be zero"),
             t.l1_base_fee = U256Zero, "Invalid L1 base fee: cannot be zero"),
             t.source_hash = Rep(0, HASH_LEN), "Invalid source hash: cannot be zero"),
         LAMBDA errors : [isValid |-> errors = <<>>, errors |-> errors])

(***************************************************************************)
(* Tx7eProcessor.                                                          *)
(***************************************************************************)
\* u64::min on the 8-byte representation: the first differing byte decides
BytesLess(x, y) ==
    \E i \in 1..Len(x) : x[i] < y[i] /\ \A j \in 1..(i - 1) : x[j] = y[j]

\* the larger of two u64
U64MinLarger(x, y) == IF BytesLess(y, x) THEN x ELSE y

\* u64::min
U64Min(x, y) == IF BytesLess(y, x) THEN y ELSE x

\* Tx7eTransaction::total_l1_cost
TotalL1Cost(t) == t.l1_fee

\* calculate_gas_usage without the final min
CalculateGasUsageNoCap(t) ==
    NatToBE(BASE_GAS
            + (IF t.data # <<>> THEN Len(t.data) * GAS_PER_DATA_BYTE ELSE 0)
            + (IF t.value # U256Zero THEN VALUE_TRANSFER_GAS ELSE 0), 8)

\* Tx7eProcessor::calculate_gas_usage
CalculateGasUsage(t) ==
    U64Min(NatToBE(BASE_GAS
                   + (IF t.data # <<>> THEN Len(t.data) * GAS_PER_DATA_BYTE ELSE 0)
                   + (IF t.value # U256Zero THEN VALUE_TRANSFER_GAS ELSE 0), 8),
           t.gas_limit)

\* errors.join(", ")
Join(ss, sep) ==
    IF ss = <<>> THEN <<>>
    ELSE [i \in 1..(2 * Len(ss) - 1) |-> IF i % 2 = 1 THEN ss[(i + 1) \div 2] ELSE sep]

\* a failed result that drops the message
FailureNoMessage(msg) ==
    [success |-> FALSE, error |-> <<>>, transaction |-> <<>>,
     gas_used |-> Rep(0, 8), l1_cost |-> U256Zero]

\* the ProcessingResult of a failed stage
Failure(msg) ==
    [success |-> FALSE, error |-> msg, transaction |-> <<>>,
     gas_used |-> Rep(0, 8), l1_cost |-> U256Zero]

(***************************************************************************)
(* The inputs.  The caller builds an envelope starting from the mock       *)
(* transaction of the tests and of main.rs, encodes it, and a sender may   *)
(* alter the encoded items and the framing before the bytes are processed. *)
(***************************************************************************)
U64(n) == NatToBE(n, 8)

\* create_mock_transaction / create_mock_tx7e_transaction
MockTx ==
    [ chain_id        |-> U64(42161),
      target          |-> <<18, 52, 86, 120, 144, 18, 52, 86, 120, 144,
                            18, 52, 86, 120, 144, 18, 52, 86, 120, 144>>,
      value           |-> FromU64(<<13, 224, 182, 179, 167, 100, 0, 0>>),
      data            |-> <<96, 43, 87, 253>>,
      gas_limit       |-> U64(100000),
      l1_block_number |-> U64(12345),
      l1_timestamp    |-> U64(1640995200),
      l1_base_fee     |-> FromU64(<<0, 0, 0, 4, 168, 23, 200, 0>>),
      l1_gas_price    |-> FromU64(<<0, 0, 0, 5, 210, 29, 186, 0>>),
      l1_gas_used     |-> U64(50000),
      l1_fee          |-> FromU64(<<0, 3, 141, 126, 164, 198, 128, 0>>),
      refund_address  |-> <<171, 205, 239, 171, 205, 239, 171, 205, 239, 171,
                            205, 239, 171, 205, 239, 171, 205, 239, 171, 205>>,
      source_hash     |-> Rep(1, HASH_LEN) ]

FieldNames == DOMAIN MockTx

\* the values a caller may give a field instead of the mock one
FieldValues(f) ==
    CASE f = "chain_id"        -> {U64(0), U64(127), U64(128)}
      [] f = "target"          -> {Rep(0, ADDRESS_LEN), Rep(255, ADDRESS_LEN)}
      [] f = "value"           -> {U256Zero, U256Max, FromU64(U64(1))}
      [] f = "data"            -> {<<>>, <<0>>, <<128>>, Rep(171, LongDataLen)}
      [] f = "gas_limit"       -> {U64(0), U64(21000), U64(30064), Rep(255, 8)}
      [] f = "l1_block_number" -> {U64(0), <<0, 0, 0, 1, 0, 0, 0, 0>>}
      [] f = "l1_timestamp"    -> {U64(0), U64(1)}
      [] f = "l1_base_fee"     -> {U256Zero, U256Max}
      [] f = "l1_gas_price"    -> {U256Zero, FromU64(U64(255))}
      [] f = "l1_gas_used"     -> {U64(0), Rep(255, 8)}
      [] f = "l1_fee"          -> {U256Zero, U256Max}
      [] f = "refund_address"  -> {Rep(0, ADDRESS_LEN), Rep(255, ADDRESS_LEN)}
      [] f = "source_hash"     -> {Rep(0, HASH_LEN), Rep(255, HASH_LEN)}

\* the encoded items a sender may put in place of item i (1-based) of the list
ItemAlternatives(i) ==
    IF i \in {1, 5, 6, 7, 10}
    THEN {<<0>>, <<130, 0, 1>>, EncodeValue(Rep(1, 9))}
    ELSE IF i \in {2, 12}
    THEN {EncodeValue(Rep(7, ADDRESS_LEN - 1)), EncodeValue(Rep(7, ADDRESS_LEN + 1)),
          EncodeValue(Rep(7, ADDRESS_LEN))}
    ELSE IF i = 13
    THEN {EncodeValue(Rep(7, HASH_LEN - 1)), EncodeValue(Rep(7, HASH_LEN + 1)),
          EncodeValue(Rep(7, HASH_LEN))}
    ELSE IF i = 4
    THEN {<<192>>, <<129, 5>>}
    ELSE {<<1>>, EncodeValue(Rep(7, U256_LEN + 1)), <<192>>}

\* the type bytes a sender may frame the list with instead of 0x7e
WrongTags == {0, 1, 2, 125, 127, 248, 255}

(***************************************************************************)
(* main: the transaction it builds from the configuration and processes.   *)
(***************************************************************************)
\* Option::unwrap_or
UnwrapOr(opt, default) == IF opt = <<>> THEN default ELSE opt[1]

\* create_mock_tx7e_transaction(config)
CreateMockTx7eTransaction(config) ==
    [MockTx EXCEPT !.chain_id = config.chain_id,
                   !.l1_base_fee = FromU64(config.l1_base_fee)]

\* what process_transaction returns once a transaction has parsed
ProcessParsed(t) ==
    With(ValidateTransaction(t),
         LAMBDA v : IF ~v.isValid
                    THEN Failure(<<"Validation failed: ">> \o Join(v.errors, ", "))
                    ELSE [success |-> TRUE, error |-> <<>>, transaction |-> <<t>>,
                          gas_used |-> CalculateGasUsage(t), l1_cost |-> TotalL1Cost(t)])

\* Tx7eProcessor::process_transaction, start to return
ProcessTransaction(raw_tx) ==
    With(Parse(raw_tx),
         LAMBDA p : IF ~p.ok THEN Failure(<<"Parsing failed: ">> \o p.err)
                    ELSE ProcessParsed(p.val))

(***************************************************************************)
(* ArbitrumConfig: a u64 field is its 8 big-endian bytes, the u32          *)
(* arb_os_version its 4.                                                   *)
(***************************************************************************)
U32(n) == NatToBE(n, 4)

\* 20_000_000_000 = 0x04A817C800 as a u64
TwentyGwei == <<0, 0, 0, 4, 168, 23, 200, 0>>

\* impl Default for GasPriceComponents
DefaultGasPriceComponents ==
    [l2_base_fee      |-> U64(1000000000),
     l1_calldata_cost |-> U64(16),
     l1_storage_cost  |-> U64(0),
     congestion_fee   |-> U64(0)]

\* PrecompileConfig; its config map is empty wherever the program builds one
PrecompileDescriptor(address, name, enabled) ==
    [address |-> address, name |-> name, enabled |-> enabled]

\* the String "0x" followed by 38 zeros and the two digits
PrecompileKey(digits) == <<"0x">> \o Rep("0", 38) \o digits

\* ArbitrumConfig::default_precompiles: the HashMap as a function of its keys
DefaultPrecompiles ==
    [key \in {PrecompileKey(<<"6", "4">>), PrecompileKey(<<"6", "c">>)} |->
        PrecompileDescriptor(key, IF key = PrecompileKey(<<"6", "4">>) THEN "ArbSys"
                                  ELSE "ArbGasInfo", TRUE)]

\* impl Default for ArbitrumConfig
DefaultConfig ==
    [chain_id             |-> U64(42161),
     arb_os_version       |-> U32(20),
     l1_base_fee          |-> TwentyGwei,
     gas_price_components |-> DefaultGasPriceComponents,
     tx7e_enabled         |-> TRUE,
     mock_l1_bridge       |-> "0x0000000000000000000000000000000000000064",
     precompiles          |-> DefaultPrecompiles]

\* ArbitrumConfig::new
NewConfig(chain_id, arb_os_version, l1_base_fee) ==
    [DefaultConfig EXCEPT !.chain_id = chain_id,
                          !.arb_os_version = arb_os_version,
                          !.l1_base_fee = l1_base_fee]

\* validate with the L2 base fee checked before the L1 base fee
ValidateL2First(config) ==
    IF config.chain_id = U64(0) THEN Err(<<"Chain ID cannot be 0">>)
    ELSE IF config.arb_os_version = U32(0) THEN Err(<<"ArbOS version cannot be 0">>)
    ELSE IF config.gas_price_components.l2_base_fee = U64(0)
    THEN Err(<<"L2 base fee cannot be 0">>)
    ELSE IF config.l1_base_fee = U64(0) THEN Err(<<"L1 base fee cannot be 0">>)
    ELSE IF config.gas_price_components.l1_calldata_cost = U64(0)
    THEN Err(<<"L1 calldata cost cannot be 0">>)
    ELSE Ok(<<>>)

\* ArbitrumConfig::validate
Validate(config) ==
    IF config.chain_id = U64(0) THEN Err(<<"Chain ID cannot be 0">>)
    ELSE IF config.arb_os_version = U32(0) THEN Err(<<"ArbOS version cannot be 0">>)
    ELSE IF config.l1_base_fee = U64(0) THEN Err(<<"L1 base fee cannot be 0">>)
    ELSE IF config.gas_price_components.l2_base_fee = U64(0)
    THEN Err(<<"L2 base fee cannot be 0">>)
    ELSE IF config.gas_price_components.l1_calldata_cost = U64(0)
    THEN Err(<<"L1 calldata cost cannot be 0">>)
    ELSE Ok(<<>>)

\* ArbitrumConfig::get_precompile: None is <<>>
GetPrecompile(config, address) ==
    IF address \in DOMAIN config.precompiles THEN <<config.precompiles[address]>> ELSE <<>>

\* ArbitrumConfig::is_precompile_enabled
IsPrecompileEnabled(config, address) ==
    IF address \in DOMAIN config.precompiles THEN config.precompiles[address].enabled
    ELSE FALSE

(***************************************************************************)
(* The precompile handlers.  u64 arithmetic gives the bytes d of the       *)
(* result modulo 2^64 and c > 0 when the operation overflows u64 (a panic  *)
(* in a build with overflow checks, the wrapped value in one without).     *)
(***************************************************************************)
\* hex::encode
HexEncode(bytes) == Concat([i \in 1..Len(bytes) |-> Hex02(bytes[i])])

\* x * y in u64
MulInU64(x, y) ==
    With(MulU64(x, y),
         LAMBDA p : [d |-> Drop(p, 8), c |-> IF Take(p, 8) = Rep(0, 8) THEN 0 ELSE 1])

\* x / n in u64, for a small n
DivU64(x, n) ==
    LET upTo[k \in 0..8] ==
            IF k = 0 THEN [q |-> <<>>, r |-> 0]
            ELSE With(upTo[k - 1],
                      LAMBDA p : [q |-> Append(p.q, (p.r * 256 + x[k]) \div n),
                                  r |-> (p.r * 256 + x[k]) % n])
    IN  upTo[8].q

\* the address a handler is constructed with: from_hex of "0x", 38 zeros
\* and the last two digits
HandlerAddress(digits) == FromHex(AsciiStr(<<48, 120>> \o Rep(48, 38) \o digits)).val

\* ArbSysHandler::new, name and address
ArbSysHandler == [name |-> "ArbSys", address |-> HandlerAddress(<<54, 52>>)]

\* struct GasAccountingParams as ArbGasInfoHandler::new fills it
AccountingParams ==
    [speed_limit_per_second  |-> U64(120000000),
     gas_pool_max            |-> U64(32000000),
     max_tx_gas_limit        |-> U64(32000000),
     amortized_cost_cap_bips |-> U64(10000)]

\* ArbGasInfoHandler::new, name and address
ArbGasInfoHandler == [name |-> "ArbGasInfo", address |-> HandlerAddress(<<54, 99>>)]

\* the match of ArbSysHandler::handle_call answering arbBlockNumber() with
\* the chain id
ArbSysMatchMixed(selector_hex, config) ==
    IF selector_hex = <<"d", "1", "2", "7", "f", "5", "4", "a">>
    THEN Ok(ToBigEndian(FromU64(config.chain_id)))
    ELSE IF selector_hex = <<"a", "3", "b", "1", "b", "3", "1", "d">>
    THEN Ok(ToBigEndian(FromU64(config.chain_id)))
    ELSE IF selector_hex = <<"0", "5", "1", "0", "3", "8", "f", "2">>
    THEN Ok(ToBigEndian(FromU64(PadLeft(config.arb_os_version, 8))))
    ELSE Err(<<"Unknown function selector: 0x">> \o selector_hex)

\* match selector_hex.as_str() of ArbSysHandler::handle_call
ArbSysMatch(selector_hex, config) ==
    IF selector_hex = <<"d", "1", "2", "7", "f", "5", "4", "a">>      \* arbChainID
    THEN Ok(ToBigEndian(FromU64(config.chain_id)))
    ELSE IF selector_hex = <<"a", "3", "b", "1", "b", "3", "1", "d">> \* arbBlockNumber
    THEN Ok(ToBigEndian(FromU64(U64(1))))
    ELSE IF selector_hex = <<"0", "5", "1", "0", "3", "8", "f", "2">> \* arbOSVersion
    THEN Ok(ToBigEndian(FromU64(PadLeft(config.arb_os_version, 8))))
    ELSE Err(<<"Unknown function selector: 0x">> \o selector_hex)

\* ArbSysHandler::handle_call
ArbSysHandleCall(input, config) ==
    IF Len(input) < 4 THEN Err(<<"Input too short for function selector">>)
    ELSE With(HexEncode(Take(input, 4)), LAMBDA selector_hex : ArbSysMatch(selector_hex, config))

\* the zero and the non-zero bytes of the input counted
ZeroBytes(input) == Cardinality({k \in 1..Len(input) : input[k] = 0})

NonZeroBytes(input) == Cardinality({k \in 1..Len(input) : input[k] # 0})

\* raw_gas, l1_gas_used and l1_gas_fees of handle_get_current_tx_l1_gas_fees
\* from the products non_zero_bytes * cost_per_non_zero and
\* zero_bytes * cost_per_zero: the fee as the 32 bytes returned, and whether
\* an operation overflowed u64
GasFees(nonZeroGas, zeroGas, l1_base_fee) ==
    With(AddU64(nonZeroGas.d, zeroGas.d),
         LAMBDA raw_gas :
             With(MulInU64(raw_gas.d, U64(9)),
                  LAMBDA nine :
                      With(MulInU64(DivU64(nine.d, 10), l1_base_fee),
                           LAMBDA l1_gas_fees :
                               [fees     |-> ToBigEndian(FromU64(l1_gas_fees.d)),
                                overflow |-> nonZeroGas.c > 0 \/ zeroGas.c > 0 \/ raw_gas.c > 0
                                                 \/ nine.c > 0 \/ l1_gas_fees.c > 0])))

\* ArbGasInfoHandler::handle_get_current_tx_l1_gas_fees
GetCurrentTxL1GasFees(input, config) ==
    GasFees(MulInU64(U64(NonZeroBytes(input)), config.gas_price_components.l1_calldata_cost),
            MulInU64(U64(ZeroBytes(input)), U64(4)),
            config.l1_base_fee)

\* ArbGasInfoHandler::encode_u256
EncodeU256(val) == ToBigEndian(val)

\* the six words with the congestion fee in the fourth place
GetPricesInWeiShifted(config) ==
    EncodeU256(FromU64(config.gas_price_components.l2_base_fee))
    \o EncodeU256(FromU64(config.gas_price_components.l1_calldata_cost))
    \o EncodeU256(SaturatingMul(FromU64(config.l1_base_fee),
                                FromU64(config.gas_price_components.l1_calldata_cost)))
    \o EncodeU256(FromU64(config.gas_price_components.congestion_fee))
    \o EncodeU256(FromU64(config.gas_price_components.congestion_fee))
    \o EncodeU256(SaturatingAdd(FromU64(config.gas_price_components.l2_base_fee),
                                FromU64(config.gas_price_components.congestion_fee)))

\* ArbGasInfoHandler::handle_get_prices_in_wei
GetPricesInWei(config) ==
    EncodeU256(FromU64(config.gas_price_components.l2_base_fee))
    \o EncodeU256(FromU64(config.gas_price_components.l1_calldata_cost))
    \o EncodeU256(SaturatingMul(FromU64(config.l1_base_fee),
                                FromU64(config.gas_price_components.l1_calldata_cost)))
    \o EncodeU256(FromU64(config.gas_price_components.l2_base_fee))
    \o EncodeU256(FromU64(config.gas_price_components.congestion_fee))
    \o EncodeU256(SaturatingAdd(FromU64(config.gas_price_components.l2_base_fee),
                                FromU64(config.gas_price_components.congestion_fee)))

\* ArbGasInfoHandler::handle_get_prices_in_arb_gas
GetPricesInArbGas(config) ==
    EncodeU256(FromU64(config.gas_price_components.l2_base_fee))
    \o EncodeU256(FromU64(config.gas_price_components.l1_calldata_cost))
    \o EncodeU256(FromU64(config.gas_price_components.l1_storage_cost))

\* ArbGasInfoHandler::handle_get_gas_accounting_params
GetGasAccountingParams ==
    EncodeU256(FromU64(AccountingParams.speed_limit_per_second))
    \o EncodeU256(FromU64(AccountingParams.gas_pool_max))
    \o EncodeU256(FromU64(AccountingParams.max_tx_gas_limit))

\* the match with the results of the two WithAggregator selectors exchanged
ArbGasInfoMatchSwapped(selector_hex, input, config) ==
    IF selector_hex = <<"c", "6", "f", "7", "d", "e", "0", "e">>
    THEN Ok(GetCurrentTxL1GasFees(input, config).fees)
    ELSE IF selector_hex = <<"4", "1", "b", "2", "4", "7", "a", "8">>
    THEN Ok(GetPricesInWei(config))
    ELSE IF selector_hex = <<"f", "5", "d", "6", "d", "e", "d", "7">>
    THEN Ok(ToBigEndian(FromU64(config.l1_base_fee)))
    ELSE IF selector_hex = <<"0", "2", "1", "9", "9", "f", "3", "4">>
    THEN Ok(GetPricesInArbGas(config))
    ELSE IF selector_hex = <<"b", "2", "4", "6", "b", "5", "6", "5">>
    THEN Ok(EncodeU256(FromU64(config.gas_price_components.l2_base_fee)))
    ELSE IF selector_hex = <<"0", "5", "5", "f", "3", "6", "2", "f">>
    THEN Ok(EncodeU256(FromU64(config.l1_base_fee)))
    ELSE IF selector_hex = <<"6", "1", "2", "a", "f", "1", "7", "8">>
    THEN Ok(GetGasAccountingParams)
    ELSE IF selector_hex = <<"f", "9", "1", "8", "3", "7", "9", "a">>
    THEN Ok(EncodeU256(FromU64(config.gas_price_components.l2_base_fee)))
    ELSE IF selector_hex = <<"7", "a", "7", "d", "6", "b", "e", "b">>
    THEN Ok(EncodeU256(FromU64(AccountingParams.amortized_cost_cap_bips)))
    ELSE IF selector_hex = <<"6", "7", "0", "3", "7", "b", "e", "c">>
    THEN Ok(EncodeU256(FromU64(U64(1))))
    ELSE IF selector_hex = <<"4", "3", "a", "2", "8", "b", "2", "e">>
    THEN Ok(GetPricesInArbGas(config))
    ELSE IF selector_hex = <<"1", "2", "f", "7", "8", "b", "a", "a">>
    THEN Ok(GetPricesInWei(config))
    ELSE Err(<<"Unknown function selector: 0x">> \o selector_hex)

\* match selector_hex.as_str() of ArbGasInfoHandler::handle_call, the fee of
\* getCurrentTxL1GasFees being the one a build without overflow checks
\* returns
ArbGasInfoMatch(selector_hex, input, config) ==
    IF selector_hex = <<"c", "6", "f", "7", "d", "e", "0", "e">>  \* getCurrentTxL1GasFees
    THEN Ok(GetCurrentTxL1GasFees(input, config).fees)
    ELSE IF selector_hex = <<"4", "1", "b", "2", "4", "7", "a", "8">>  \* getPricesInWei
    THEN Ok(GetPricesInWei(config))
    ELSE IF selector_hex = <<"f", "5", "d", "6", "d", "e", "d", "7">>  \* getL1BaseFeeEstimate
    THEN Ok(ToBigEndian(FromU64(config.l1_base_fee)))
    ELSE IF selector_hex = <<"0", "2", "1", "9", "9", "f", "3", "4">>  \* getPricesInArbGas
    THEN Ok(GetPricesInArbGas(config))
    ELSE IF selector_hex = <<"b", "2", "4", "6", "b", "5", "6", "5">>  \* getL2BaseFeeEstimate
    THEN Ok(EncodeU256(FromU64(config.gas_price_components.l2_base_fee)))
    ELSE IF selector_hex = <<"0", "5", "5", "f", "3", "6", "2", "f">>  \* getL1GasPriceEstimate
    THEN Ok(EncodeU256(FromU64(config.l1_base_fee)))
    ELSE IF selector_hex = <<"6", "1", "2", "a", "f", "1", "7", "8">>  \* getGasAccountingParams
    THEN Ok(GetGasAccountingParams)
    ELSE IF selector_hex = <<"f", "9", "1", "8", "3", "7", "9", "a">>  \* getMinimumGasPrice
    THEN Ok(EncodeU256(FromU64(config.gas_price_components.l2_base_fee)))
    ELSE IF selector_hex = <<"7", "a", "7", "d", "6", "b", "e", "b">>  \* getAmortizedCostCapBips
    THEN Ok(EncodeU256(FromU64(AccountingParams.amortized_cost_cap_bips)))
    ELSE IF selector_hex = <<"6", "7", "0", "3", "7", "b", "e", "c">>  \* getL1BlobBaseFeeEstimate
    THEN Ok(EncodeU256(FromU64(U64(1))))
    ELSE IF selector_hex = <<"4", "3", "a", "2", "8", "b", "2", "e">>  \* getPricesInWeiWithAggregator
    THEN Ok(GetPricesInWei(config))
    ELSE IF selector_hex = <<"1", "2", "f", "7", "8", "b", "a", "a">>  \* getPricesInArbGasWithAggregator
    THEN Ok(GetPricesInArbGas(config))
    ELSE Err(<<"Unknown function selector: 0x">> \o selector_hex)

\* handle_call letting inputs of three bytes through to the match
ArbGasInfoHandleCallThree(input, config) ==
    IF Len(input) < 3 THEN Err(<<"Input too short for function selector">>)
    ELSE With(HexEncode(Take(input, 4)),
              LAMBDA selector_hex : ArbGasInfoMatch(selector_hex, input, config))

\* ArbGasInfoHandler::handle_call
ArbGasInfoHandleCall(input, config) ==
    IF Len(input) < 4 THEN Err(<<"Input too short for function selector">>)
    ELSE With(HexEncode(Take(input, 4)),
              LAMBDA selector_hex : ArbGasInfoMatch(selector_hex, input, config))

\* handler.handle_call(input, config) of the handler named name
HandlerCall(name, input, config) ==
    IF name = "ArbSys" THEN ArbSysHandleCall(input, config)
    ELSE ArbGasInfoHandleCall(input, config)

\* the call panics in a build with overflow checks
HandlerOverflows(name, input, config) ==
    /\ name = "ArbGasInfo"
    /\ Len(input) >= 4
    /\ HexEncode(Take(input, 4)) = <<"c", "6", "f", "7", "d", "e", "0", "e">>
    /\ GetCurrentTxL1GasFees(input, config).overflow

\* ArbSys::gas_cost
ArbSysGasCost(input) == U64(3)

\* ArbGasInfo::gas_cost
ArbGasInfoGasCost(input) ==
    IF Len(input) < 4 THEN U64(0)
    ELSE With(HexEncode(Take(input, 4)),
              LAMBDA selector :
                  IF selector = <<"4", "1", "b", "2", "4", "7", "a", "8">> THEN U64(10)
                  ELSE IF selector = <<"f", "5", "d", "6", "d", "e", "d", "7">> THEN U64(5)
                  ELSE IF selector = <<"0", "2", "1", "9", "9", "f", "3", "4">> THEN U64(96)
                  ELSE IF selector \in {<<"6", "1", "2", "a", "f", "1", "7", "8">>,
                                        <<"4", "3", "a", "2", "8", "b", "2", "e">>,
                                        <<"1", "2", "f", "7", "8", "b", "a", "a">>}
                  THEN U64(20)
                  ELSE IF selector \in {<<"b", "2", "4", "6", "b", "5", "6", "5">>,
                                        <<"0", "5", "5", "f", "3", "6", "2", "f">>,
                                        <<"f", "9", "1", "8", "3", "7", "9", "a">>,
                                        <<"7", "a", "7", "d", "6", "b", "e", "b">>,
                                        <<"6", "7", "0", "3", "7", "b", "e", "c">>}
                  THEN U64(10)
                  ELSE U64(0))

\* handler.gas_cost(input)
HandlerGasCost(name, input) ==
    IF name = "ArbSys" THEN ArbSysGasCost(input) ELSE ArbGasInfoGasCost(input)

(***************************************************************************)
(* PrecompileRegistry: handlers is the Vec of the handlers registered.     *)
(***************************************************************************)
\* PrecompileRegistry::default
DefaultRegistry == <<ArbSysHandler, ArbGasInfoHandler>>

\* get_handler: the index of the first handler with the address, 0 for None
GetHandler(handlers, address) ==
    With({k \in 1..Len(handlers) : handlers[k].address = address},
         LAMBDA found : IF found = {} THEN 0 ELSE Least(found))

\* has_handler
HasHandler(handlers, address) == \E k \in 1..Len(handlers) : handlers[k].address = address

\* get_addresses
GetAddresses(handlers) == [k \in 1..Len(handlers) |-> handlers[k].address]

\* impl Display for Address
AddressDisplay(address) == <<"0x">> \o HexEncode(address)

\* handle_call falling back to the first handler, or to 32 zero bytes
RegistryHandleCallDefault(handlers, address, input, config) ==
    IF GetHandler(handlers, address) # 0
    THEN HandlerCall(handlers[GetHandler(handlers, address)].name, input, config)
    ELSE Ok(Rep(0, U256_LEN))

\* PrecompileRegistry::handle_call
RegistryHandleCall(handlers, address, input, config) ==
    IF GetHandler(handlers, address) # 0
    THEN HandlerCall(handlers[GetHandler(handlers, address)].name, input, config)
    ELSE Err(<<"No precompile handler found for address ">> \o AddressDisplay(address))

\* the registry call panics in a build with overflow checks
RegistryOverflows(handlers, address, input, config) ==
    /\ GetHandler(handlers, address) # 0
    /\ HandlerOverflows(handlers[GetHandler(handlers, address)].name, input, config)

(***************************************************************************)
(* State.                                                                  *)
(***************************************************************************)
VARIABLES
    pc,         \* where the run is: "build", "encoded", "framed", "validate",
                \* "compute", "done", "hashed", "decoded"
    tx,         \* the envelope the caller constructed (Tx7eTransaction::new)
    edits,      \* how many of its fields differ from the mock transaction
    items,      \* the encoded items of the list the sender frames
    wireEdits,  \* how many changes the sender made to items and framing
    encoded,    \* tx.rlp_encode(), <<>> before it is taken
    raw,        \* the bytes handed to process_transaction
    digest,     \* tx.hash(): <<>> or <<h>>
    decoded,    \* Tx7eTransaction::decode(&Rlp::new(&encoded)): <<>> or <<r>>
    parsed,     \* the parser's result inside process_transaction: <<>> or <<r>>
    validation, \* the validator's result: <<>> or <<v>>
    result,     \* the ProcessingResults returned so far
    stages,     \* the stages of process_transaction that ran, in order
    arith,      \* a U256 computation: the operands a and b, the operation
                \* applied ("none" before it is), its result, and whether an
                \* addition of the operation overflowed its integer type
    hex,        \* a call of Address::from_hex: the input, how many changes
                \* made it from an address literal, and <<>> or <<result>>
    boot,       \* the run of main: where it is, the arguments, the
                \* configuration (<<>> before it is created), how often it
                \* was created and validated, and the uses made of it
    call        \* a call of a precompile: registry, address, input,
                \* configuration and <<>> or <<result>>

vars == <<pc, tx, edits, items, wireEdits, encoded, raw, digest, decoded,
          parsed, validation, result, stages, arith, hex, boot, call>>

\* the state of the transaction runs
txVars == <<pc, tx, edits, items, wireEdits, encoded, raw, digest, decoded,
            parsed, validation, result, stages>>

\* what the caller and the sender leave alone
\* the state outside the transaction runs
sideVars == <<arith, hex, boot, call>>

pipeVars == <<digest, decoded, parsed, validation, result, stages, sideVars>>

NoArith ==
    [a |-> U256Zero, b |-> U256Zero, op |-> "none", out |-> U256Zero, overflow |-> FALSE]

\* the state before any transaction is built
TxIdle ==
    /\ pc = "build"
    /\ tx = MockTx
    /\ edits = 0
    /\ items = <<>>
    /\ wireEdits = 0
    /\ encoded = <<>>
    /\ raw = <<>>
    /\ digest = <<>>
    /\ decoded = <<>>
    /\ parsed = <<>>
    /\ validation = <<>>
    /\ result = <<>>
    /\ stages = <<>>

\* no call of Address::from_hex
NoHex == [input |-> <<>>, edits |-> 0, out |-> <<>>]

\* main is not running
NoBoot == [pc |-> "idle"]

\* no call of a precompile
NoCall == [pc |-> "idle"]

Init ==
    /\ TxIdle
    /\ arith = NoArith
    /\ hex = NoHex
    /\ boot = NoBoot
    /\ call = NoCall

(***************************************************************************)
(* The caller: construction, hash, rlp_encode, decode of the encoding.     *)
(***************************************************************************)
\* Tx7eTransaction::new with field f given the value v
SetField(f, v) ==
    /\ pc = "build"
    /\ edits < MaxEdits
    /\ tx[f] = MockTx[f]
    /\ tx' = [tx EXCEPT ![f] = v]
    /\ edits' = edits + 1
    /\ UNCHANGED <<pc, items, wireEdits, encoded, raw>>
    /\ UNCHANGED pipeVars

\* tx.hash()
HashTx ==
    /\ pc = "build"
    /\ digest' = <<Hash(tx)>>
    /\ pc' = "hashed"
    /\ UNCHANGED <<tx, edits, items, wireEdits, encoded, raw, decoded, parsed,
                   validation, result, stages, sideVars>>

\* let encoded = tx.rlp_encode()
Encode ==
    /\ pc = "build"
    /\ encoded' = RlpEncode(tx)
    /\ items' = RlpItems(tx)
    /\ pc' = "encoded"
    /\ UNCHANGED <<tx, edits, wireEdits, raw>>
    /\ UNCHANGED pipeVars

\* Tx7eTransaction::decode(&Rlp::new(&encoded))
DecodeEncoded ==
    /\ pc = "encoded"
    /\ wireEdits = 0
    /\ decoded' = <<Decode(encoded)>>
    /\ pc' = "decoded"
    /\ UNCHANGED <<tx, edits, items, wireEdits, encoded, raw, digest, parsed,
                   validation, result, stages, sideVars>>

(***************************************************************************)
(* The sender of the wire bytes.  It alters the encoding of the mock       *)
(* transaction only.                                                       *)
(***************************************************************************)
CanAlter ==
    /\ pc = "encoded"
    /\ edits = 0
    /\ wireEdits < MaxWireEdits

\* item i of the list is replaced
MutateItem(i, alt) ==
    /\ CanAlter
    /\ i \in 1..Len(items)
    /\ items[i] # alt
    /\ items' = [items EXCEPT ![i] = alt]
    /\ wireEdits' = wireEdits + 1
    /\ UNCHANGED <<pc, tx, edits, encoded, raw>>
    /\ UNCHANGED pipeVars

\* only the first k items are sent
DropItems(k) ==
    /\ CanAlter
    /\ k < Len(items)
    /\ items' = Take(items, k)
    /\ wireEdits' = wireEdits + 1
    /\ UNCHANGED <<pc, tx, edits, encoded, raw>>
    /\ UNCHANGED pipeVars

\* n more items are sent
AddItems(n) ==
    /\ CanAlter
    /\ items' = items \o [j \in 1..n |-> <<128>>]
    /\ wireEdits' = wireEdits + 1
    /\ UNCHANGED <<pc, tx, edits, encoded, raw>>
    /\ UNCHANGED pipeVars

\* raw_tx = [0x7e] ++ list, as main.rs and the tests frame it
Frame ==
    /\ pc = "encoded"
    /\ raw' = <<TX_TYPE_0X7E>> \o EncodeList(items)
    /\ pc' = "framed"
    /\ UNCHANGED <<tx, edits, items, wireEdits, encoded>>
    /\ UNCHANGED pipeVars

\* the list framed with another type byte
FrameTagged(b) ==
    /\ CanAlter
    /\ raw' = <<b>> \o EncodeList(items)
    /\ wireEdits' = wireEdits + 1
    /\ pc' = "framed"
    /\ UNCHANGED <<tx, edits, items, encoded>>
    /\ UNCHANGED pipeVars

\* the list sent with no type byte in front
FrameUntagged ==
    /\ CanAlter
    /\ raw' = EncodeList(items)
    /\ wireEdits' = wireEdits + 1
    /\ pc' = "framed"
    /\ UNCHANGED <<tx, edits, items, encoded>>
    /\ UNCHANGED pipeVars

\* a zero-length input
FrameEmpty ==
    /\ CanAlter
    /\ raw' = <<>>
    /\ wireEdits' = wireEdits + 1
    /\ pc' = "framed"
    /\ UNCHANGED <<tx, edits, items, encoded>>
    /\ UNCHANGED pipeVars

\* the type byte alone
FrameTagOnly ==
    /\ CanAlter
    /\ raw' = <<TX_TYPE_0X7E>>
    /\ wireEdits' = wireEdits + 1
    /\ pc' = "framed"
    /\ UNCHANGED <<tx, edits, items, encoded>>
    /\ UNCHANGED pipeVars

\* n bytes follow the list
FrameTrailing(n) ==
    /\ CanAlter
    /\ raw' = <<TX_TYPE_0X7E>> \o EncodeList(items) \o Rep(0, n)
    /\ wireEdits' = wireEdits + 1
    /\ pc' = "framed"
    /\ UNCHANGED <<tx, edits, items, encoded>>
    /\ UNCHANGED pipeVars

\* the list holds, after its items, the header byte 0xb8 of a long string
\* whose length byte is missing
FrameCutItem ==
    /\ CanAlter
    /\ raw' = With(Concat(items),
                   LAMBDA payload : <<TX_TYPE_0X7E>> \o ListHeader(Len(payload) + 1)
                                    \o payload \o <<184>>)
    /\ wireEdits' = wireEdits + 1
    /\ pc' = "framed"
    /\ UNCHANGED <<tx, edits, items, encoded>>
    /\ UNCHANGED pipeVars

\* the last n bytes of the framed list are missing
FrameCut(n) ==
    /\ CanAlter
    /\ raw' = With(<<TX_TYPE_0X7E>> \o EncodeList(items),
                   LAMBDA full : Take(full, Len(full) - n))
    /\ wireEdits' = wireEdits + 1
    /\ pc' = "framed"
    /\ UNCHANGED <<tx, edits, items, encoded>>
    /\ UNCHANGED pipeVars

(***************************************************************************)
(* Tx7eProcessor::process_transaction(raw), stage by stage.                *)
(***************************************************************************)
\* let tx = match self.parser.parse(raw_tx) { .. }
ParseStage ==
    /\ pc = "framed"
    /\ parsed' = <<Parse(raw)>>
    /\ IF parsed'[1].ok
       THEN /\ pc' = "validate"
            /\ result' = result
       ELSE /\ pc' = "done"
            /\ result' = Append(result, Failure(<<"Parsing failed: ">> \o parsed'[1].err))
    /\ stages' = Append(stages, "decode")
    /\ UNCHANGED <<tx, edits, items, wireEdits, encoded, raw, digest, decoded, validation,
                   sideVars>>

\* the validation stage without the early return
ValidateStageGoesOn ==
    /\ pc = "validate"
    /\ validation' = <<ValidateTransaction(parsed[1].val)>>
    /\ pc' = "compute"
    /\ result' = result
    /\ stages' = Append(stages, "validate")
    /\ UNCHANGED <<tx, edits, items, wireEdits, encoded, raw, digest, decoded, parsed,
                   sideVars>>

\* let validation = self.parser.validate_transaction(&tx); if !validation.isValid
ValidateStage ==
    /\ pc = "validate"
    /\ validation' = <<ValidateTransaction(parsed[1].val)>>
    /\ IF validation'[1].isValid
       THEN /\ pc' = "compute"
            /\ result' = result
       ELSE /\ pc' = "done"
            /\ result' = Append(result,
                   Failure(<<"Validation failed: ">> \o Join(validation'[1].errors, ", ")))
    /\ stages' = Append(stages, "validate")
    /\ UNCHANGED <<tx, edits, items, wireEdits, encoded, raw, digest, decoded, parsed,
                   sideVars>>

\* calculate_gas_usage, total_l1_cost and the successful result
ComputeStage ==
    /\ pc = "compute"
    /\ result' = Append(result,
           [success |-> TRUE, error |-> <<>>, transaction |-> <<parsed[1].val>>,
            gas_used |-> CalculateGasUsage(parsed[1].val),
            l1_cost |-> TotalL1Cost(parsed[1].val)])
    /\ pc' = "done"
    /\ stages' = Append(stages, "compute")
    /\ UNCHANGED <<tx, edits, items, wireEdits, encoded, raw, digest, decoded, parsed,
                   validation, sideVars>>

Next ==
    \/ \E f \in FieldNames : \E v \in FieldValues(f) : SetField(f, v)
    \/ HashTx
    \/ Encode
    \/ DecodeEncoded
    \/ \E i \in 1..TX7E_FIELDS : \E alt \in ItemAlternatives(i) : MutateItem(i, alt)
    \/ \E k \in 0..(TX7E_FIELDS - 1) : DropItems(k)
    \/ \E n \in 1..MaxExtraItems : AddItems(n)
    \/ Frame
    \/ \E b \in WrongTags : FrameTagged(b)
    \/ FrameUntagged
    \/ FrameEmpty
    \/ FrameTagOnly
    \/ \E n \in 1..MaxTrailing : FrameTrailing(n)
    \/ FrameCutItem
    \/ \E n \in 1..MaxTrailing : FrameCut(n)
    \/ ParseStage
    \/ ValidateStage
    \/ ComputeStage

Spec == Init /\ [][Next]_vars

(***************************************************************************)
(* U256 arithmetic: a computation on two operands.                         *)
(***************************************************************************)
\* the U256 with the k low bytes 0xff: 2^(8k) - 1
LowOnes(k) == Rep(0, U256_LEN - k) \o Rep(255, k)

\* the U256 with the single byte v at position i (1 is the most significant)
OneByte(i, v) == [j \in 1..U256_LEN |-> IF j = i THEN v ELSE 0]

\* the operands: values around the carry chains of the 32 bytes
Operands ==
    {LowOnes(k) : k \in {0, 1, 8, 16, 31, 32}}
    \cup {OneByte(i, v) : i \in {1, 2, 16, 24, 32}, v \in {1, 128, 255}}
    \cup {[LowOnes(31) EXCEPT ![1] = 127], [LowOnes(32) EXCEPT ![32] = 254]}

InitU256 ==
    /\ TxIdle
    /\ arith \in [a : Operands, b : Operands, op : {"none"}, out : {U256Zero},
                  overflow : {FALSE}]
    /\ hex = NoHex
    /\ boot = NoBoot
    /\ call = NoCall

\* self.saturating_add(other)
DoSaturatingAdd ==
    /\ arith.op = "none"
    /\ arith' = [arith EXCEPT !.op = "saturating_add",
                              !.out = SaturatingAdd(arith.a, arith.b)]
    /\ UNCHANGED <<txVars, hex, boot, call>>

\* the result of saturating_mul and whether one of its additions overflowed
\* (a panic in a debug build, a wrapped limb in a release build)
MulOutcome(a, b) ==
    With(MulLimbs(ToU64Limbs(a), ToU64Limbs(b)),
         LAMBDA st : [out |-> MulValue(st.res_limbs), overflow |-> st.overflow])

\* self.saturating_mul(other)
DoSaturatingMul ==
    /\ arith.op = "none"
    /\ arith' = [a |-> arith.a, b |-> arith.b, op |-> "saturating_mul",
                 out |-> SaturatingMul(arith.a, arith.b),
                 overflow |-> MulOutcome(arith.a, arith.b).overflow]
    /\ UNCHANGED <<txVars, hex, boot, call>>

\* self + other
DoAdd ==
    /\ arith.op = "none"
    /\ arith' = [arith EXCEPT !.op = "add", !.out = Add(arith.a, arith.b)]
    /\ UNCHANGED <<txVars, hex, boot, call>>

NextU256 ==
    \/ DoSaturatingAdd
    \/ DoSaturatingMul
    \/ DoAdd

SpecU256 == InitU256 /\ [][NextU256]_vars

(***************************************************************************)
(* Calls of Address::from_hex on strings near the address literals of the  *)
(* repository.                                                             *)
(***************************************************************************)
\* "0x1234567890123456789012345678901234567890" and
\* "0xabcdefabcdefabcdefabcdefabcdefabcdefabcd"
HexLiterals ==
    {AsciiStr(<<48, 120>> \o [i \in 1..40 |-> 48 + (i % 10)]),
     AsciiStr(<<48, 120>> \o [i \in 1..40 |-> 97 + ((i - 1) % 6)])}

\* the characters written in place of another: 0 f F g x + - space and the
\* two-byte character U+00E9
HexAlphabet ==
    {<<48>>, <<102>>, <<70>>, <<103>>, <<120>>, <<43>>, <<45>>, <<32>>, <<195, 169>>}

\* where a character is replaced: the prefix, the first two chunks, the last
HexPositions == {1, 2, 3, 4, 5, 6, 41, 42}

InitHex ==
    /\ TxIdle
    /\ arith = NoArith
    /\ hex \in {[input |-> l, edits |-> 0, out |-> <<>>] : l \in HexLiterals}
    /\ boot = NoBoot
    /\ call = NoCall

\* the string with input in place of the literal
HexEdited(input) ==
    /\ hex.out = <<>>
    /\ hex.edits < MaxHexEdits
    /\ hex' = [hex EXCEPT !.input = input, !.edits = hex.edits + 1]
    /\ UNCHANGED <<txVars, arith, boot, call>>

\* character p written as c
HexReplace(p, c) ==
    /\ p <= Len(hex.input)
    /\ hex.input[p] # c
    /\ HexEdited([hex.input EXCEPT ![p] = c])

\* the string without its last character
HexDropLast ==
    /\ hex.input # <<>>
    /\ HexEdited(Take(hex.input, Len(hex.input) - 1))

\* the string with one more character
HexAppend(c) == HexEdited(hex.input \o <<c>>)

\* the string written without its "0x"
HexDropPrefix ==
    /\ StripPrefix0x(hex.input) # hex.input
    /\ HexEdited(StripPrefix0x(hex.input))

\* the string with one more "0x" in front
HexAddPrefix == HexEdited(<<<<48>>, <<120>>>> \o hex.input)

\* Address::from_hex(input)
DoFromHex ==
    /\ hex.out = <<>>
    /\ hex' = [hex EXCEPT !.out = <<FromHex(hex.input)>>]
    /\ UNCHANGED <<txVars, arith, boot, call>>

NextHex ==
    \/ \E p \in HexPositions, c \in HexAlphabet : HexReplace(p, c)
    \/ HexDropLast
    \/ \E c \in HexAlphabet : HexAppend(c)
    \/ HexDropPrefix
    \/ HexAddPrefix
    \/ DoFromHex

SpecHex == InitHex /\ [][NextHex]_vars

(***************************************************************************)
(* A caller of the library: it builds a configuration from the default     *)
(* one (the fields are public), registers handlers, and either validates   *)
(* the configuration or calls a precompile with it.  A registry other than *)
(* the empty and the default one is called with the default configuration. *)
(***************************************************************************)
U64MaxValue == Rep(255, 8)

ConfigFields ==
    {"chain_id", "arb_os_version", "l1_base_fee", "l2_base_fee", "l1_calldata_cost",
     "l1_storage_cost", "congestion_fee"}

\* the values a field is given: zero, one and the largest of its type
ConfigValues(f) ==
    IF f = "arb_os_version" THEN {U32(0), Rep(255, 4)}
    ELSE IF f = "l1_storage_cost" THEN {U64(1)}
    ELSE IF f = "congestion_fee" THEN {U64(1), U64MaxValue}
    ELSE {U64(0), U64MaxValue}

\* the field f of a configuration
FieldOf(config, f) ==
    IF f \in {"chain_id", "arb_os_version", "l1_base_fee"} THEN config[f]
    ELSE config.gas_price_components[f]

\* the configuration with field f set to v
WithField(config, f, v) ==
    IF f \in {"chain_id", "arb_os_version", "l1_base_fee"} THEN [config EXCEPT ![f] = v]
    ELSE [config EXCEPT !.gas_price_components[f] = v]

\* the selectors called: the 3 of ArbSys, the 12 of ArbGasInfo, and
\* 4d2301cc (the one main.rs sends), 00000000, d127f54b, c6f7de0f
CallSelectors ==
    {<<209, 39, 245, 74>>, <<163, 177, 179, 29>>, <<5, 16, 56, 242>>,
     <<198, 247, 222, 14>>, <<65, 178, 71, 168>>, <<245, 214, 222, 215>>,
     <<2, 25, 159, 52>>, <<178, 70, 181, 101>>, <<5, 95, 54, 47>>,
     <<97, 42, 241, 120>>, <<249, 24, 55, 154>>, <<122, 125, 107, 235>>,
     <<103, 3, 123, 236>>, <<67, 162, 139, 46>>, <<18, 247, 139, 170>>,
     <<77, 35, 1, 204>>, <<0, 0, 0, 0>>, <<209, 39, 245, 75>>, <<198, 247, 222, 15>>}

\* what follows the selector in an input
CallTrailings == {<<>>, <<0>>, <<255, 0, 1>>}

\* the inputs of fewer than four bytes
ShortInputs ==
    {<<>>, <<198>>, <<198, 247>>, <<198, 247, 222>>, <<209, 39, 245>>, <<0, 0, 0>>}

CallInputs == ShortInputs \cup {sel \o t : sel \in CallSelectors, t \in CallTrailings}

\* the inputs sent to an address without a handler
ProbeInputs == {<<>>, <<209, 39, 245, 74>>, <<198, 247, 222, 14, 255>>}

\* the addresses called: 0x..64, 0x..6c, 0x..00 and 0x..65
CallAddresses ==
    {ArbSysHandler.address, ArbGasInfoHandler.address, Rep(0, ADDRESS_LEN),
     HandlerAddress(<<54, 53>>)}

InitCall ==
    /\ TxIdle
    /\ arith = NoArith
    /\ hex = NoHex
    /\ boot = NoBoot
    /\ call = [pc |-> "config", config |-> DefaultConfig, edits |-> 0, handlers |-> <<>>,
               via |-> "", address |-> <<>>, input |-> <<>>, validated |-> <<>>,
               out |-> <<>>, panic |-> FALSE]

\* config.f = v
SetConfigField(f, v) ==
    /\ call.pc = "config"
    /\ call.edits < MaxConfigEdits
    /\ FieldOf(call.config, f) = FieldOf(DefaultConfig, f)
    /\ call.handlers \in {<<>>, DefaultRegistry}
    /\ call' = [call EXCEPT !.config = WithField(call.config, f, v),
                            !.edits = call.edits + 1]
    /\ UNCHANGED <<txVars, arith, hex, boot>>

\* registry.register(Box::new(handler)), up to the size of the default
\* registry
Register(handler) ==
    /\ call.pc = "config"
    /\ Len(call.handlers) < Len(DefaultRegistry)
    /\ call.edits = 0 \/ Append(call.handlers, handler) = Take(DefaultRegistry, Len(call.handlers) + 1)
    /\ call' = [call EXCEPT !.handlers = Append(call.handlers, handler)]
    /\ UNCHANGED <<txVars, arith, hex, boot>>

\* config.validate()
DoValidate ==
    /\ call.pc = "config"
    /\ call' = [call EXCEPT !.pc = "validated", !.validated = <<Validate(call.config)>>]
    /\ UNCHANGED <<txVars, arith, hex, boot>>

\* the call returned res, or panicked on a u64 overflow
Called(via, address, input, res, overflows) ==
    \E panic \in (IF overflows THEN BOOLEAN ELSE {FALSE}) :
        /\ call' = [call EXCEPT !.pc = "called", !.via = via, !.address = address,
                                !.input = input,
                                !.out = IF panic THEN <<>> ELSE <<res>>,
                                !.panic = panic]
        /\ UNCHANGED <<txVars, arith, hex, boot>>

\* registry.handle_call(address, input, config)
DoRegistryCall(address, input) ==
    /\ call.pc = "config"
    /\ HasHandler(call.handlers, address) \/ input \in ProbeInputs
    /\ Called("registry", address, input,
              RegistryHandleCall(call.handlers, address, input, call.config),
              RegistryOverflows(call.handlers, address, input, call.config))

\* handler.handle_call(input, config) on a handler of its own
DoHandlerCall(handler, input) ==
    /\ call.pc = "config"
    /\ call.handlers = <<>>
    /\ Called(handler.name, handler.address, input,
              HandlerCall(handler.name, input, call.config),
              HandlerOverflows(handler.name, input, call.config))

NextCall ==
    \/ \E f \in ConfigFields : \E v \in ConfigValues(f) : SetConfigField(f, v)
    \/ \E handler \in {ArbSysHandler, ArbGasInfoHandler} : Register(handler)
    \/ DoValidate
    \/ \E address \in CallAddresses, input \in CallInputs : DoRegistryCall(address, input)
    \/ \E handler \in {ArbSysHandler, ArbGasInfoHandler}, input \in CallInputs :
           DoHandlerCall(handler, input)

SpecCall == InitCall /\ [][NextCall]_vars

(***************************************************************************)
(* A session of a caller holding one registry and one configuration: up to *)
(* MaxCalls operations, each logged with the registry and configuration it *)
(* found and with its outcome.  The build is with or without overflow      *)
(* checks for the whole session; a panic ends the session.                 *)
(***************************************************************************)
MaxCalls == 3

\* the configurations a session starts with: the default one, and one with
\* the largest L1 base fee and a storage cost of 1
SessionConfigs ==
    {DefaultConfig,
     WithField(WithField(DefaultConfig, "l1_base_fee", U64MaxValue), "l1_storage_cost", U64(1))}

\* the <<address, input>> of the handle_call calls of a session
SessionCalls ==
    {<<ArbGasInfoHandler.address, <<2, 25, 159, 52, 255, 0, 1>> >>,
     <<ArbGasInfoHandler.address, <<198, 247, 222, 14, 255, 0, 1>> >>,
     <<ArbSysHandler.address, <<209, 39, 245, 74>> >>,
     <<ArbSysHandler.address, <<5, 16>> >>,
     <<Rep(0, ADDRESS_LEN), <<209, 39, 245, 74>> >>}

\* the <<address, input>> of the gas_cost calls of a session
SessionGasCalls ==
    {<<ArbGasInfoHandler.address, <<2, 25, 159, 52, 255, 0, 1>> >>,
     <<Rep(0, ADDRESS_LEN), <<209, 39, 245, 74>> >>}

InitSession ==
    /\ TxIdle
    /\ arith = NoArith
    /\ hex = NoHex
    /\ boot = NoBoot
    /\ \E config \in SessionConfigs, overflow_checks \in BOOLEAN :
           call = [pc |-> "session", overflow_checks |-> overflow_checks,
                   handlers |-> DefaultRegistry, config |-> config, log |-> <<>>]

\* the operation with handle_call taking its handler out of the registry
LoggedConsuming(op, address, input, panic, out) ==
    /\ call.pc = "session"
    /\ Len(call.log) < MaxCalls
    /\ call' = [call EXCEPT !.pc = IF panic THEN "aborted" ELSE "session",
                            !.handlers = IF op = "handle_call"
                                         THEN SelectSeq(call.handlers,
                                                        LAMBDA h : h.address # address)
                                         ELSE call.handlers,
                            !.log = Append(call.log,
                                           [op |-> op, address |-> address, input |-> input,
                                            handlers |-> call.handlers,
                                            config |-> call.config,
                                            panic |-> panic,
                                            out |-> IF panic THEN <<>> ELSE <<out>>])]
    /\ UNCHANGED <<txVars, arith, hex, boot>>

\* the operation op took &self and &config, and returned out or panicked
Logged(op, address, input, panic, out) ==
    /\ call.pc = "session"
    /\ Len(call.log) < MaxCalls
    /\ call' = [call EXCEPT !.pc = IF panic THEN "aborted" ELSE "session",
                            !.log = Append(call.log,
                                           [op |-> op, address |-> address, input |-> input,
                                            handlers |-> call.handlers,
                                            config |-> call.config,
                                            panic |-> panic,
                                            out |-> IF panic THEN <<>> ELSE <<out>>])]
    /\ UNCHANGED <<txVars, arith, hex, boot>>

\* handle_call serving only the precompiles the configuration enables
SessionHandleCallEnabled(address, input) ==
    Logged("handle_call", address, input,
           /\ call.overflow_checks
           /\ IsPrecompileEnabled(call.config, AddressDisplay(address))
           /\ RegistryOverflows(call.handlers, address, input, call.config),
           IF IsPrecompileEnabled(call.config, AddressDisplay(address))
           THEN RegistryHandleCall(call.handlers, address, input, call.config)
           ELSE Err(<<"Precompile is disabled: ">> \o AddressDisplay(address)))

\* registry.handle_call(&address, input, &config)
SessionHandleCall(address, input) ==
    Logged("handle_call", address, input,
           call.overflow_checks /\ RegistryOverflows(call.handlers, address, input, call.config),
           RegistryHandleCall(call.handlers, address, input, call.config))

\* registry.get_handler(&address).map(|handler| handler.gas_cost(input))
SessionGasCost(address, input) ==
    Logged("gas_cost", address, input, FALSE,
           IF GetHandler(call.handlers, address) = 0 THEN <<>>
           ELSE <<HandlerGasCost(call.handlers[GetHandler(call.handlers, address)].name,
                                 input)>>)

\* registry.has_handler(&address)
SessionHasHandler(address) ==
    Logged("has_handler", address, <<>>, FALSE, HasHandler(call.handlers, address))

\* registry.get_addresses()
SessionGetAddresses ==
    Logged("get_addresses", <<>>, <<>>, FALSE, GetAddresses(call.handlers))

\* config.precompiles.get_mut(key): descriptor.enabled = false, by the
\* owner of the configuration between two calls
DisableDescriptor(key) ==
    /\ call.pc = "session"
    /\ Len(call.log) < MaxCalls
    /\ key \in DOMAIN call.config.precompiles
    /\ call.config.precompiles[key].enabled
    /\ call' = [call EXCEPT !.config.precompiles[key].enabled = FALSE,
                            !.log = Append(call.log,
                                           [op |-> "disable", address |-> key, input |-> <<>>,
                                            handlers |-> call.handlers,
                                            config |-> call.config,
                                            panic |-> FALSE, out |-> <<>>])]
    /\ UNCHANGED <<txVars, arith, hex, boot>>

\* config.precompiles.remove(key), by the owner of the configuration
\* between two calls
RemoveDescriptor(key) ==
    /\ call.pc = "session"
    /\ Len(call.log) < MaxCalls
    /\ key \in DOMAIN call.config.precompiles
    /\ call' = [call EXCEPT !.config.precompiles =
                                [k \in DOMAIN call.config.precompiles \ {key} |->
                                    call.config.precompiles[k]],
                            !.log = Append(call.log,
                                           [op |-> "remove", address |-> key, input |-> <<>>,
                                            handlers |-> call.handlers,
                                            config |-> call.config,
                                            panic |-> FALSE, out |-> <<>>])]
    /\ UNCHANGED <<txVars, arith, hex, boot>>

NextSession ==
    \/ \E c \in SessionCalls : SessionHandleCall(c[1], c[2])
    \/ \E c \in SessionGasCalls : SessionGasCost(c[1], c[2])
    \/ SessionHasHandler(ArbSysHandler.address)
    \/ SessionGetAddresses
    \/ \E key \in DOMAIN DefaultPrecompiles : DisableDescriptor(key)
    \/ \E key \in DOMAIN DefaultPrecompiles : RemoveDescriptor(key)

SpecSession == InitSession /\ [][NextSession]_vars

(***************************************************************************)
(* The run of main: the arguments are parsed, the configuration is         *)
(* created, demonstrate_arbitrum_features makes its three precompile calls *)
(* and, with --enable-tx7e, processes the mock transaction.                *)
(***************************************************************************)
\* the arguments parsed: --arbitrum, --arb-chain-id, --arb-os-version,
\* --l1-base-fee (each Some, from the command line or from its default
\* value) and --enable-tx7e
ParsedArgs ==
    [arbitrum       : BOOLEAN,
     chain_id       : {<<U64(42161)>>, <<U64(0)>>, <<U64(1)>>, <<U64MaxValue>>},
     arb_os_version : {<<U32(20)>>, <<U32(0)>>},
     l1_base_fee    : {<<TwentyGwei>>, <<U64(0)>>, <<U64MaxValue>>},
     enable_tx7e    : BOOLEAN]

InitBoot ==
    /\ TxIdle
    /\ arith = NoArith
    /\ hex = NoHex
    /\ call = NoCall
    /\ boot \in [pc : {"parsed"}, args : ParsedArgs, config : {<<>>}, created : {0},
                 validations : {0}, uses : {<<>>}]

\* let config = if args.arbitrum { ArbitrumConfig::new(..) } else { default }
BootCreateConfig ==
    /\ boot.pc = "parsed"
    /\ boot' = [boot EXCEPT
           !.pc = "configured",
           !.created = boot.created + 1,
           !.config = <<IF boot.args.arbitrum
                        THEN NewConfig(UnwrapOr(boot.args.chain_id, U64(42161)),
                                       UnwrapOr(boot.args.arb_os_version, U32(20)),
                                       UnwrapOr(boot.args.l1_base_fee, TwentyGwei))
                        ELSE DefaultConfig>>]
    /\ UNCHANGED <<txVars, arith, hex, call>>

\* precompile_registry.handle_call(address, input, config) of the
\* demonstration, made when the registry has a handler at the address
BootCall(from, to, address, input) ==
    /\ boot.pc = from
    /\ HasHandler(DefaultRegistry, address)
    /\ boot' = [boot EXCEPT
           !.pc = to,
           !.uses = Append(boot.uses,
                       [op |-> "handle_call", config |-> boot.config[1],
                        out |-> RegistryHandleCall(DefaultRegistry, address, input,
                                                   boot.config[1])])]
    /\ UNCHANGED <<txVars, arith, hex, call>>

\* the call labelled arbChainID(): selector a3b1b31d
BootArbSysChainId ==
    BootCall("configured", "arbsys1", ArbSysHandler.address, <<163, 177, 179, 29>>)

\* the call labelled arbOSVersion(): selector 4d2301cc
BootArbSysVersion ==
    BootCall("arbsys1", "arbsys2", ArbSysHandler.address, <<77, 35, 1, 204>>)

\* the call labelled getL1BaseFeeEstimate(): selector 4d2301cc
BootGasInfo ==
    BootCall("arbsys2", "gasinfo", ArbGasInfoHandler.address, <<77, 35, 1, 204>>)

\* if args.enable_tx7e: the mock transaction built from the configuration,
\* framed and processed
BootTx7e ==
    /\ boot.pc = "gasinfo"
    /\ boot.args.enable_tx7e
    /\ boot' = [boot EXCEPT
           !.pc = "tx7e",
           !.uses = Append(boot.uses,
                       [op |-> "process_transaction", config |-> boot.config[1],
                        out |-> ProcessTransaction(
                                    <<TX_TYPE_0X7E>>
                                    \o RlpEncode(CreateMockTx7eTransaction(boot.config[1])))])]
    /\ UNCHANGED <<txVars, arith, hex, call>>

\* Ok(()) of main
BootDone ==
    /\ boot.pc = "tx7e" \/ (boot.pc = "gasinfo" /\ ~boot.args.enable_tx7e)
    /\ boot' = [boot EXCEPT !.pc = "done"]
    /\ UNCHANGED <<txVars, arith, hex, call>>

NextBoot ==
    \/ BootCreateConfig
    \/ BootArbSysChainId
    \/ BootArbSysVersion
    \/ BootGasInfo
    \/ BootTx7e
    \/ BootDone

SpecBoot == InitBoot /\ [][NextBoot]_vars

(***************************************************************************)
(* Properties of the wire codec and the parser.                            *)
(***************************************************************************)
\* the bytes processed are the type byte followed by the list of `items`
StdFramed == raw = <<TX_TYPE_0X7E>> \o EncodeList(items)

\* C1: decoding the encoding of an envelope gives back an envelope equal in
\* all 13 fields, and parsing the type byte 0x7e followed by that encoding
\* gives back the same envelope.
C1_RoundTrip ==
    /\ decoded # <<>> => decoded[1].ok /\ decoded[1].val = tx
    /\ (parsed # <<>> /\ raw = <<TX_TYPE_0X7E>> \o encoded)
           => parsed[1].ok /\ parsed[1].val = tx

\* an envelope with empty data and the largest value was encoded and decoded
C1_Witness ==
    /\ pc = "decoded"
    /\ decoded[1].ok
    /\ tx.data = <<>>
    /\ tx.value = U256Max

\* the same through parse, with a data field that needs a long string header
C1_WitnessParse ==
    /\ parsed # <<>>
    /\ raw = <<TX_TYPE_0X7E>> \o encoded
    /\ Len(tx.data) = LongDataLen
    /\ parsed[1].val = tx

\* C2: parse fails with the empty-input error on a zero-length input and
\* with the wrong-type error (naming the byte found) on a non-empty input
\* whose first byte is not 0x7e; in both cases decode is never run.
C2_EmptyAndWrongType ==
    parsed # <<>> =>
        /\ raw = <<>> =>
               /\ ~parsed[1].ok
               /\ parsed[1].err = <<"Empty transaction data">>
               /\ ~parsed[1].decoded
        /\ (raw # <<>> /\ raw[1] # 126) =>
               /\ ~parsed[1].ok
               /\ parsed[1].err =
                      <<"Invalid transaction type: expected 0x7e, got 0x">> \o Hex02(raw[1])
               /\ ~parsed[1].decoded

\* a well-formed list behind the type byte 0x7f was rejected
C2_Witness ==
    /\ parsed # <<>>
    /\ raw = <<127>> \o encoded
    /\ parsed[1].err = <<"Invalid transaction type: expected 0x7e, got 0x", "7", "f">>

\* a zero-length input was rejected
C2_WitnessEmpty ==
    /\ parsed # <<>>
    /\ raw = <<>>
    /\ ~parsed[1].ok

\* C3: a list whose number of items is not 13 is rejected with the
\* incorrect-list-length error, whatever its items are: no error of a field
\* is reported for it.
C3_Arity ==
    (parsed # <<>> /\ StdFramed /\ Len(items) # 13)
        => /\ ~parsed[1].ok
           /\ parsed[1].err = <<"RLP decoding failed: ", "RlpIncorrectListLen">>

\* a list of fewer than 13 items, the first of them not a canonical u64,
\* was rejected
C3_Witness ==
    /\ parsed # <<>>
    /\ StdFramed
    /\ Len(items) \in 1..12
    /\ items[1] = <<0>>
    /\ ~parsed[1].ok

\* a list of more than 13 items was rejected
C3_WitnessLonger ==
    /\ parsed # <<>>
    /\ StdFramed
    /\ Len(items) > 13
    /\ ~parsed[1].ok

\* the encoded item is a byte string of exactly n bytes (n <= 55)
IsStringOf(item, n) == Len(item) = n + 1 /\ item[1] = 128 + n

\* the target or the refund address is not 20 bytes, or the source hash is
\* not 32 bytes
WrongLength ==
    \/ ~IsStringOf(items[2], 20)
    \/ ~IsStringOf(items[12], 20)
    \/ ~IsStringOf(items[13], 32)

InvalidLengthError(e) ==
    \E m \in {"Invalid target address length", "Invalid refund address length",
              "Invalid source hash length"} :
        e = <<"RLP decoding failed: ", "Custom(", m, ")">>

\* C4 as stated: whenever a 13-item list has a target or refund address that
\* is not 20 bytes or a source hash that is not 32 bytes, decoding fails
\* with an invalid-length error.
C4_AsStated ==
    (parsed # <<>> /\ StdFramed /\ Len(items) = 13 /\ WrongLength)
        => ~parsed[1].ok /\ InvalidLengthError(parsed[1].err)

\* C4: a 13-item list whose target or refund address is not 20 bytes or
\* whose source hash is not 32 bytes is always rejected; the error is an
\* invalid-length error when all 13 items decode as values of their types,
\* and the decoding error of the first item that does not otherwise.  An
\* accepted envelope carries exactly the bytes of the three items: nothing
\* is padded or truncated.
C4_Lengths ==
    (parsed # <<>> /\ StdFramed /\ Len(items) = 13) =>
        /\ WrongLength => ~parsed[1].ok
        /\ (WrongLength /\ FirstErr(ReadFields(items)) = "")
               => InvalidLengthError(parsed[1].err)
        /\ (WrongLength /\ FirstErr(ReadFields(items)) # "")
               => parsed[1].err = <<"RLP decoding failed: ", FirstErr(ReadFields(items))>>
        /\ parsed[1].ok =>
               /\ items[2] = <<148>> \o parsed[1].val.target
               /\ items[12] = <<148>> \o parsed[1].val.refund_address
               /\ items[13] = <<160>> \o parsed[1].val.source_hash

\* a 19-byte refund address was rejected with the invalid-length error
C4_Witness ==
    /\ parsed # <<>>
    /\ StdFramed
    /\ Len(items) = 13
    /\ Len(items[12]) = 20
    /\ parsed[1].err =
           <<"RLP decoding failed: ", "Custom(", "Invalid refund address length", ")">>

(***************************************************************************)
(* Properties of the hash, the validator and the processor.                *)
(***************************************************************************)
\* C5: the hash of an envelope is the Keccak-256 digest of the type byte
\* 0x7e followed by the RLP encoding of the envelope.
C5_HashOfFramed ==
    digest # <<>> => digest[1] = Keccak256(<<TX_TYPE_0X7E>> \o RlpEncode(tx))

\* every byte of x is zero
AllZero(x) == \A i \in DOMAIN x : x[i] = 0

\* the seven messages of the validator, in the order of its checks
ValidationMessages ==
    << "Invalid chain ID: cannot be zero",
       "Invalid target address: cannot be zero address",
       "Invalid gas limit: cannot be zero",
       "Invalid L1 block number: cannot be zero",
       "Invalid L1 timestamp: cannot be zero",
       "Invalid L1 base fee: cannot be zero",
       "Invalid source hash: cannot be zero" >>

\* which of the seven fields of t are zero, in the same order
ZeroFields(t) ==
    << AllZero(t.chain_id), AllZero(t.target), AllZero(t.gas_limit),
       AllZero(t.l1_block_number), AllZero(t.l1_timestamp), AllZero(t.l1_base_fee),
       AllZero(t.source_hash) >>

MessageIndex(m) == CHOOSE k \in 1..7 : ValidationMessages[k] = m

\* v reports exactly the zero fields of t, each once, in the fixed order
ReportsZeroFields(t, v) ==
    /\ \A k \in 1..7 :
           (\E i \in DOMAIN v.errors : v.errors[i] = ValidationMessages[k]) <=> ZeroFields(t)[k]
    /\ \A i \in DOMAIN v.errors : \E k \in 1..7 : v.errors[i] = ValidationMessages[k]
    /\ \A i, j \in DOMAIN v.errors :
           i < j => MessageIndex(v.errors[i]) < MessageIndex(v.errors[j])
    /\ v.isValid <=> v.errors = <<>>

\* C6: the validator makes seven independent checks (chain id, target,
\* gas limit, L1 block number, L1 timestamp, L1 base fee and source hash not
\* zero); it appends one message for every violated check, in that order,
\* and the envelope is valid exactly when no message was appended.
C6_Validation ==
    validation # <<>> => ReportsZeroFields(parsed[1].val, validation[1])

\* an envelope with a zero chain id and a zero source hash got both messages
C6_Witness ==
    /\ validation # <<>>
    /\ validation[1].errors = <<"Invalid chain ID: cannot be zero",
                                "Invalid source hash: cannot be zero">>

\* msg is "Validation failed: " followed by the errors joined with ", "
IsJoined(msg, errors) ==
    /\ Len(msg) = 2 * Len(errors)
    /\ msg[1] = "Validation failed: "
    /\ \A i \in DOMAIN errors : msg[2 * i] = errors[i]
    /\ \A i \in 2..Len(errors) : msg[2 * i - 1] = ", "

\* C7: process_transaction runs decode, validate and compute in this order
\* in one pass; a decode failure returns at once with "Parsing failed: "
\* and the parser's error, without validating; a validation failure returns
\* "Validation failed: " and the messages joined with ", ", without
\* computing gas; only a valid envelope reaches the computation.
C7_Stages ==
    /\ \A i \in DOMAIN stages : i <= 3 /\ stages[i] = <<"decode", "validate", "compute">>[i]
    /\ validation # <<>> => parsed # <<>> /\ parsed[1].ok
    /\ pc = "done" =>
           IF ~parsed[1].ok
           THEN /\ stages = <<"decode">>
                /\ validation = <<>>
                /\ ~result[1].success
                /\ result[1].error = <<"Parsing failed: ">> \o parsed[1].err
           ELSE IF ~validation[1].isValid
           THEN /\ stages = <<"decode", "validate">>
                /\ ~result[1].success
                /\ IsJoined(result[1].error, validation[1].errors)
           ELSE /\ stages = <<"decode", "validate", "compute">>
                /\ result[1].success

\* an envelope with two zero fields was refused by the validation stage
C7_Witness ==
    /\ pc = "done"
    /\ stages = <<"decode", "validate">>
    /\ Len(validation[1].errors) = 2
    /\ Len(result[1].error) = 4

\* a failed result has no transaction, gas_used 0, l1_cost zero and an
\* error; a successful one has an empty error; there is one result once
\* process_transaction has returned and none before
ResultShape ==
    /\ \A i \in DOMAIN result :
           IF result[i].success
           THEN result[i].error = <<>>
           ELSE /\ result[i].transaction = <<>>
                /\ AllZero(result[i].gas_used)
                /\ AllZero(result[i].l1_cost)
                /\ result[i].error # <<>>
                /\ \A j \in DOMAIN result[i].error : result[i].error[j] # ""
    /\ Len(result) = (IF pc = "done" THEN 1 ELSE 0)

\* process_transaction runs to its return once it is called
FairSpec == Spec /\ WF_vars(ParseStage \/ ValidateStage \/ ComputeStage)

\* C8: every failed result has no transaction, gas_used 0, l1_cost zero and
\* a non-empty error; every successful result has an empty error; and
\* process_transaction returns exactly one result for every input.
C8_ResultShape ==
    /\ []ResultShape
    /\ (pc = "framed") ~> (pc = "done" /\ Len(result) = 1)

\* a decodable envelope with a zero field gave a failed result
C8_Witness ==
    /\ pc = "done"
    /\ validation # <<>>
    /\ ~result[1].success
    /\ result[1].transaction = <<>>

\* 21000 + 16 * len(data) + 9000 when the value is not zero
ExpectedGas(t) ==
    21000 + 16 * Len(t.data) + (IF AllZero(t.value) THEN 0 ELSE 9000)

\* the u64 limit is less than g, g being less than 2^24
LimitBelow(limit, g) ==
    /\ AllZero(SubSeq(limit, 1, 5))
    /\ 65536 * limit[6] + 256 * limit[7] + limit[8] < g

\* r is the successful result for the envelope t
IsSuccessFor(r, t) ==
    /\ r.transaction = <<t>>
    /\ r.gas_used = (IF LimitBelow(t.gas_limit, ExpectedGas(t))
                     THEN t.gas_limit
                     ELSE <<0, 0, 0, 0, 0,
                            ExpectedGas(t) \div 65536,
                            (ExpectedGas(t) \div 256) % 256,
                            ExpectedGas(t) % 256>>)
    /\ r.l1_cost = t.l1_fee
    /\ (Len(t.data) = 4 /\ ~AllZero(t.value) /\ ~LimitBelow(t.gas_limit, 30064))
           => r.gas_used = <<0, 0, 0, 0, 0, 0, 117, 112>>

\* C9: a successful result carries the decoded envelope, gas_used =
\* min(21000 + 16 * len(data) + (9000 if value is not zero), gas_limit) and
\* l1_cost = l1_fee; 4 data bytes and a non-zero value under a gas limit of
\* at least 30064 give 30064.
C9_Success ==
    \A i \in DOMAIN result :
        result[i].success =>
            /\ IsSuccessFor(result[i], parsed[1].val)
            /\ raw = <<TX_TYPE_0X7E>> \o encoded => result[i].transaction = <<tx>>

\* the gas of an envelope with 4 data bytes and a value was capped by its
\* gas limit of 21000
C9_Witness ==
    /\ pc = "done"
    /\ result[1].success
    /\ Len(tx.data) = 4
    /\ result[1].gas_used = <<0, 0, 0, 0, 0, 0, 82, 8>>
    /\ result[1].gas_used = tx.gas_limit

\* the mock transaction gave 30064
C9_WitnessExample ==
    /\ pc = "done"
    /\ result[1].success
    /\ tx = MockTx
    /\ result[1].gas_used = <<0, 0, 0, 0, 0, 0, 117, 112>>

(***************************************************************************)
(* Properties of the U256 arithmetic.  The integer an U256 stands for is   *)
(* taken in base 2^24: 11 digits, the first one holding the two most       *)
(* significant bytes.                                                      *)
(***************************************************************************)
\* the base-2^24 digits of u, most significant first
Digits(u) ==
    [k \in 1..11 |-> IF k = 1 THEN 256 * u[1] + u[2]
                     ELSE 65536 * u[3 * k - 3] + 256 * u[3 * k - 2] + u[3 * k - 1]]

\* the digit sums of the integer x + y with the carries added in: digit k of
\* x + y is DigitSums(x, y)[k] % 2^24, and x + y > 2^256 - 1 iff the first
\* one is above 2^16 - 1
DigitSums(x, y) ==
    LET sum[k \in 1..12] ==
            IF k = 12 THEN 0 ELSE x[k] + y[k] + (sum[k + 1] \div 16777216)
    IN  [k \in 1..11 |-> sum[k]]

\* out is x + y when that is at most 2^256 - 1, and 2^256 - 1 otherwise,
\* sums being the digit sums of x + y
IsSaturatedSum(out, sums) ==
    IF sums[1] > 65535
    THEN out = [i \in 1..32 |-> 255]
    ELSE Digits(out) = [k \in 1..11 |-> sums[k] % 16777216]

\* C10: saturating_add returns the integer a + b when a + b <= 2^256 - 1
\* and 2^256 - 1 otherwise.
C10_SaturatingAdd ==
    arith.op = "saturating_add"
        => IsSaturatedSum(arith.out, DigitSums(Digits(arith.a), Digits(arith.b)))

\* two operands below the maximum whose sum is above it gave the maximum
C10_Witness ==
    /\ arith.op = "saturating_add"
    /\ arith.a # U256Max
    /\ arith.b # U256Max
    /\ arith.out = U256Max
    /\ arith.a[1] = 128
    /\ arith.b[1] = 128

\* a sum with a carry through 31 bytes that fits
C10_WitnessCarry ==
    /\ arith.op = "saturating_add"
    /\ arith.a = LowOnes(31)
    /\ arith.b = LowOnes(0) \/ arith.b = OneByte(32, 1)
    /\ arith.out = OneByte(1, 1)

\* the 22 base-2^12 digits of u, most significant first (the first one
\* holds the 4 highest bits of u)
Digits12(u) ==
    With(<<0>> \o u,
         LAMBDA p : [k \in 1..22 |->
                        IF k % 2 = 1
                        THEN 16 * p[3 * ((k + 1) \div 2) - 2] + p[3 * ((k + 1) \div 2) - 1] \div 16
                        ELSE 256 * (p[3 * (k \div 2) - 1] % 16) + p[3 * (k \div 2)]])

\* the 44 base-2^12 digits of the integer x * y, x and y being given by
\* their 22 digits: column k collects the products x[p] * y[q] with
\* p + q = k, and carry[k] is what the columns from k on carry into the
\* digit before k
ProductDigits12(x, y) ==
    With([k \in 1..44 |-> SumOver(IF k > 22 THEN k - 22 ELSE 1,
                                  IF k > 22 THEN 22 ELSE k - 1,
                                  LAMBDA p : x[p] * y[k - p])] \o <<>>,
         LAMBDA cols :
             LET carry[k \in 1..45] ==
                     IF k = 45 THEN 0 ELSE (cols[k] + carry[k + 1]) \div 4096
             IN  [k \in 1..44 |-> (cols[k] + carry[k + 1]) % 4096] \o <<>>)

\* the 44 digits of the product of two U256
Product12(a, b) ==
    With(Digits12(a) \o <<>>,
         LAMBDA x : With(Digits12(b) \o <<>>, LAMBDA y : ProductDigits12(x, y)))

\* out is the integer whose 44 digits are prod when it is at most
\* 2^256 - 1, and 2^256 - 1 otherwise
IsSaturatedProduct(out, prod) ==
    IF (\E k \in 1..22 : prod[k] # 0) \/ prod[23] > 15
    THEN out = [i \in 1..32 |-> 255]
    ELSE Digits12(out) = SubSeq(prod, 23, 44)

\* C11: saturating_mul returns the integer a * b when a * b <= 2^256 - 1 and
\* 2^256 - 1 otherwise, and no addition of the limb loop overflows its
\* 64-bit or 128-bit type.
C11_SaturatingMul ==
    arith.op = "saturating_mul"
        => /\ ~arith.overflow
           /\ With(Product12(arith.a, arith.b), LAMBDA prod : IsSaturatedProduct(arith.out, prod))

\* 2^128 * 2^128 = 2^256 does not fit: only limb 4 of the product is set
C11_Witness ==
    /\ arith.op = "saturating_mul"
    /\ arith.a = OneByte(16, 1)
    /\ arith.b = OneByte(16, 1)
    /\ arith.out = U256Max

\* (2^128 - 1)^2 fits and fills all four limbs
C11_WitnessFits ==
    /\ arith.op = "saturating_mul"
    /\ arith.a = LowOnes(16)
    /\ arith.b = LowOnes(16)
    /\ arith.out # U256Max
    /\ arith.out[1] = 255
    /\ arith.out[32] = 1

\* dropping the carry of the first digit: the integer modulo 2^256
WrappedDigits(sums) ==
    [k \in 1..11 |-> IF k = 1 THEN sums[1] % 65536 ELSE sums[k] % 16777216]

\* out is (x + y) mod 2^256; it is what saturating_add returns exactly when
\* x + y <= 2^256 - 1, and otherwise it is below the maximum
IsWrappedSum(out, sums, saturated) ==
    /\ Digits(out) = WrappedDigits(sums)
    /\ (out = saturated) <=> (sums[1] <= 65535)
    /\ sums[1] > 65535 => \E i \in 1..32 : out[i] < 255

\* C12: the + operator returns (a + b) mod 2^256, never saturating: the
\* same value as saturating_add exactly when a + b <= 2^256 - 1, and
\* otherwise the wrapped sum, which is below the maximum.
C12_AddWraps ==
    arith.op = "add"
        => IsWrappedSum(arith.out, DigitSums(Digits(arith.a), Digits(arith.b)),
                        SaturatingAdd(arith.a, arith.b))

\* (2^256 - 1) + 1 wrapped to 0
C12_Witness ==
    /\ arith.op = "add"
    /\ arith.a = U256Max
    /\ arith.b = OneByte(32, 1)
    /\ arith.out = U256Zero

\* the hexadecimal digits 0-9, a-f, A-F as characters
HexChars == {<<b>> : b \in (48..57) \cup (97..102) \cup (65..70)}

\* the value of a hexadecimal digit character
HexValue(c) ==
    CHOOSE v \in 0..15 :
        c[1] = (IF v < 10 THEN 48 + v ELSE 87 + v) \/ (v >= 10 /\ c[1] = 55 + v)

\* str is exactly 40 hexadecimal digits
IsHex40(str) == Len(str) = 40 /\ \A k \in 1..40 : str[k] \in HexChars

\* C13: from_hex returns an error unless, after one optional leading "0x"
\* is removed, exactly 40 hexadecimal digits remain, and then byte i of the
\* address is the value of the i-th chunk of two digits; no string with a
\* character that is not a hexadecimal digit is accepted.
C13_FromHex ==
    hex.out # <<>>
        => With(StripPrefix0x(hex.input),
                LAMBDA h : /\ hex.out[1].ok <=> IsHex40(h)
                           /\ hex.out[1].ok /\ IsHex40(h)
                                  => \A i \in 1..20 :
                                         hex.out[1].val[i]
                                             = 16 * HexValue(h[2 * i - 1]) + HexValue(h[2 * i]))

\* the fields validate requires to be non-zero, in the order named, and
\* the message for each
RequiredFields ==
    <<"chain_id", "arb_os_version", "l1_base_fee", "l2_base_fee", "l1_calldata_cost">>

RequiredMessages ==
    <<"Chain ID cannot be 0", "ArbOS version cannot be 0", "L1 base fee cannot be 0",
      "L2 base fee cannot be 0", "L1 calldata cost cannot be 0">>

\* the required fields of config that are zero, by their place in the order
ZeroRequired(config) == {k \in 1..5 : AllZero(FieldOf(config, RequiredFields[k]))}

\* C14: validate returns an error iff one of chain_id, arb_os_version,
\* l1_base_fee, l2_base_fee, l1_calldata_cost is zero, the message names the
\* first zero field in that order, zero l1_storage_cost and congestion_fee
\* are accepted, and the default configuration validates.
C14_Validate ==
    call.pc = "validated"
        => /\ call.validated[1].ok <=> ZeroRequired(call.config) = {}
           /\ ~call.validated[1].ok
                  => call.validated[1].err
                         = <<RequiredMessages[Least(ZeroRequired(call.config))]>>
           /\ call.config = DefaultConfig => call.validated[1].ok

\* L1 and L2 base fee both zero: the L1 base fee is named
C14_Witness ==
    /\ call.pc = "validated"
    /\ ZeroRequired(call.config) = {3, 4}
    /\ call.validated[1] = Err(<<"L1 base fee cannot be 0">>)

\* accepted with l1_storage_cost = 0 and congestion_fee = 0
C14_WitnessAccepted ==
    /\ call.pc = "validated"
    /\ call.edits > 0
    /\ AllZero(call.config.gas_price_components.l1_storage_cost)
    /\ AllZero(call.config.gas_price_components.congestion_fee)
    /\ call.validated[1] = Ok(<<>>)

\* the value of the hexadecimal digit written as piece
DigitOf(piece) == CHOOSE v \in 0..15 : HexDigit[v + 1] = piece

\* text is "0x" and the 40 lower-case hexadecimal digits of the address
IsAddressText(text, address) ==
    /\ Len(text) = 41
    /\ text[1] = "0x"
    /\ \A i \in 1..20 : /\ text[2 * i] \in {HexDigit[v] : v \in 1..16}
                        /\ text[2 * i + 1] \in {HexDigit[v] : v \in 1..16}
                        /\ 16 * DigitOf(text[2 * i]) + DigitOf(text[2 * i + 1]) = address[i]

\* the addresses of the handlers registered
Registered == {call.handlers[k].address : k \in 1..Len(call.handlers)}

\* C16: the registry's handle_call returns the not-found error, never a
\* default value, for every address without a handler; has_handler holds
\* exactly of the addresses in get_addresses(), which for the default
\* registry are 0x..64 and 0x..6c.
C16_NotFound ==
    (call.pc = "called" /\ call.via = "registry")
        => /\ HasHandler(call.handlers, call.address)
                  <=> \E k \in DOMAIN GetAddresses(call.handlers) :
                          GetAddresses(call.handlers)[k] = call.address
           /\ HasHandler(call.handlers, call.address) <=> call.address \in Registered
           /\ call.address \notin Registered
                  => /\ ~call.panic
                     /\ ~call.out[1].ok
                     /\ call.out[1].err[1] = "No precompile handler found for address "
                     /\ IsAddressText(Drop(call.out[1].err, 1), call.address)
           /\ call.handlers = DefaultRegistry
                  => Registered = {Rep(0, 19) \o <<100>>, Rep(0, 19) \o <<108>>}

\* the default registry called at 0x..65
C16_Witness ==
    /\ call.pc = "called"
    /\ call.via = "registry"
    /\ call.handlers = DefaultRegistry
    /\ call.address = Rep(0, 19) \o <<101>>
    /\ ~call.out[1].ok

\* the handler the call reached: "ArbSys", "ArbGasInfo", or "" for none
Reached ==
    IF call.via # "registry" THEN call.via
    ELSE IF call.address \notin Registered THEN ""
    ELSE call.handlers[Least({k \in 1..Len(call.handlers) :
                                 call.handlers[k].address = call.address})].name

\* the selectors each handler lists, as bytes
ListedSelectors(name) ==
    IF name = "ArbSys"
    THEN {<<209, 39, 245, 74>>, <<163, 177, 179, 29>>, <<5, 16, 56, 242>>}
    ELSE {<<198, 247, 222, 14>>, <<65, 178, 71, 168>>, <<245, 214, 222, 215>>,
          <<2, 25, 159, 52>>, <<178, 70, 181, 101>>, <<5, 95, 54, 47>>,
          <<97, 42, 241, 120>>, <<249, 24, 55, 154>>, <<122, 125, 107, 235>>,
          <<103, 3, 123, 236>>, <<67, 162, 139, 46>>, <<18, 247, 139, 170>>}

\* text is the 2 * Len(bytes) lower-case hexadecimal digits of bytes
IsHexText(text, bytes) ==
    /\ Len(text) = 2 * Len(bytes)
    /\ \A i \in 1..Len(bytes) :
           /\ text[2 * i - 1] \in {HexDigit[v] : v \in 1..16}
           /\ text[2 * i] \in {HexDigit[v] : v \in 1..16}
           /\ 16 * DigitOf(text[2 * i - 1]) + DigitOf(text[2 * i]) = bytes[i]

\* C17: a handler's handle_call fails with the too-short error on every
\* input of 0 to 3 bytes, fails with the unknown-selector error on every
\* input of 4 or more bytes whose first 4 bytes it does not list, and
\* dispatches otherwise: the outcome depends on the length being below 4
\* and on the first 4 bytes only.
C17_Selectors ==
    (call.pc = "called" /\ Reached # "")
        => IF Len(call.input) < 4
           THEN call.out = <<Err(<<"Input too short for function selector">>)>>
           ELSE IF SubSeq(call.input, 1, 4) \notin ListedSelectors(Reached)
           THEN /\ ~call.panic
                /\ ~call.out[1].ok
                /\ call.out[1].err[1] = "Unknown function selector: 0x"
                /\ IsHexText(Drop(call.out[1].err, 1), SubSeq(call.input, 1, 4))
           ELSE call.panic \/ call.out[1].ok

\* three bytes of a listed selector are too short for ArbGasInfo
C17_Witness ==
    /\ call.pc = "called"
    /\ Reached = "ArbGasInfo"
    /\ call.input = <<198, 247, 222>>
    /\ call.out = <<Err(<<"Input too short for function selector">>)>>

\* an unlisted selector followed by more bytes is unknown to ArbSys
C17_WitnessUnknown ==
    /\ call.pc = "called"
    /\ Reached = "ArbSys"
    /\ call.input = <<77, 35, 1, 204, 255, 0, 1>>
    /\ call.out = <<Err(<<"Unknown function selector: 0x", "4", "d", "2", "3", "0", "1",
                          "c", "c">>)>>

\* C18: ArbSys returns 32 bytes: for d127f54a the big-endian config.chain_id,
\* for a3b1b31d the value 1 whatever the configuration, for 051038f2 the
\* big-endian config.arb_os_version; 42161, 1 and 20 with the default
\* configuration.
C18_ArbSys ==
    (call.pc = "called" /\ Reached = "ArbSys" /\ Len(call.input) >= 4)
        => /\ SubSeq(call.input, 1, 4) = <<209, 39, 245, 74>>
                  => call.out = <<Ok(Rep(0, 24) \o call.config.chain_id)>>
           /\ SubSeq(call.input, 1, 4) = <<163, 177, 179, 29>>
                  => call.out = <<Ok(Rep(0, 31) \o <<1>>)>>
           /\ SubSeq(call.input, 1, 4) = <<5, 16, 56, 242>>
                  => call.out = <<Ok(Rep(0, 28) \o call.config.arb_os_version)>>
           /\ (call.config = DefaultConfig /\ call.out[1].ok)
                  => call.out[1].val \in {Rep(0, 30) \o <<164, 177>>, Rep(0, 31) \o <<1>>,
                                          Rep(0, 31) \o <<20>>}

\* arbChainID with the largest chain id
C18_Witness ==
    /\ call.pc = "called"
    /\ Reached = "ArbSys"
    /\ call.input = <<209, 39, 245, 74>>
    /\ call.config.chain_id = Rep(255, 8)
    /\ call.out = <<Ok(Rep(0, 24) \o Rep(255, 8))>>

\* arbOSVersion with the default configuration: 20
C18_WitnessDefault ==
    /\ call.pc = "called"
    /\ Reached = "ArbSys"
    /\ call.input = <<5, 16, 56, 242>>
    /\ call.config = DefaultConfig
    /\ call.out = <<Ok(Rep(0, 31) \o <<20>>)>>

\* base-2^12 digits (most significant first): the columns cols with the
\* carries moved towards the first digit
Carry12(cols) ==
    LET from[k \in 1..(Len(cols) + 1)] ==
            IF k = Len(cols) + 1 THEN [d |-> <<>>, c |-> 0]
            ELSE With(from[k + 1],
                      LAMBDA p : [d |-> <<(cols[k] + p.c) % 4096>> \o p.d,
                                  c |-> (cols[k] + p.c) \div 4096])
    IN  from[1].d

\* the digits of x * n, x + n and x \div n for a small number n
Times12(x, n) == Carry12([k \in 1..Len(x) |-> x[k] * n])

Plus12(x, n) == Carry12([k \in 1..Len(x) |-> x[k] + (IF k = Len(x) THEN n ELSE 0)])

Over12(x, n) ==
    LET upTo[k \in 0..Len(x)] ==
            IF k = 0 THEN [q |-> <<>>, r |-> 0]
            ELSE With(upTo[k - 1],
                      LAMBDA p : [q |-> Append(p.q, (p.r * 4096 + x[k]) \div n),
                                  r |-> (p.r * 4096 + x[k]) % n])
    IN  upTo[Len(x)].q

\* the 44 digits of x * y, x being given by its digits and y as a u64
TimesU64(x, y) == With(Digits12(FromU64(y)) \o <<>>, LAMBDA f : ProductDigits12(x, f))

\* the 44 digits of ((nonZero * cost + zero * 4) * 9 / 10) * fee as integers
DiscountedFee12(nonZero, zero, cost, fee) ==
    With(Times12(Digits12(FromU64(cost)), nonZero),
         LAMBDA nz : With(Plus12(nz, zero * 4),
                          LAMBDA gas : With(Times12(gas, 9),
                                            LAMBDA nine : With(Over12(nine, 10),
                                                               LAMBDA used : TimesU64(used, fee)))))

\* the 44 digits of nonZero * cost * fee as integers
UndiscountedFee12(nonZero, cost, fee) ==
    With(Times12(Digits12(FromU64(cost)), nonZero), LAMBDA gas : TimesU64(gas, fee))

\* the call returned the 32 bytes of the integer whose 44 digits are prod
ReturnsInteger(prod) ==
    /\ ~call.panic
    /\ call.out # <<>>
    /\ call.out[1].ok
    /\ Len(call.out[1].val) = 32
    /\ \A k \in 1..22 : prod[k] = 0
    /\ Digits12(call.out[1].val) = SubSeq(prod, 23, 44)

\* a call of getCurrentTxL1GasFees reached ArbGasInfo
FeeCalled ==
    /\ call.pc = "called"
    /\ Reached = "ArbGasInfo"
    /\ Len(call.input) >= 4
    /\ SubSeq(call.input, 1, 4) = <<198, 247, 222, 14>>

\* C19: getCurrentTxL1GasFees returns, for every input and configuration,
\* the 32-byte big-endian integer
\* ((nonZero * l1_calldata_cost + zero * 4) * 9 / 10) * l1_base_fee over the
\* bytes of the whole input, without overflow, wrap or panic; for the
\* default configuration and the selector alone that is 1,140,000,000,000.
C19_Fee ==
    FeeCalled
        => /\ With(DiscountedFee12(
                       Cardinality({k \in 1..Len(call.input) : call.input[k] # 0}),
                       Cardinality({k \in 1..Len(call.input) : call.input[k] = 0}),
                       call.config.gas_price_components.l1_calldata_cost,
                       call.config.l1_base_fee),
                   ReturnsInteger)
           /\ (call.config = DefaultConfig /\ Len(call.input) = 4)
                  => call.out = <<Ok(Rep(0, 24) \o <<0, 0, 1, 9, 109, 75, 136, 0>>)>>

\* C20: with the selector c6f7de0e alone as input ArbGasInfo returns the
\* undiscounted fee 4 * l1_calldata_cost * l1_base_fee, which is
\* 1,280,000,000,000 for ArbitrumConfig::new(42161, 20, 20_000_000_000).
C20_Undiscounted ==
    (FeeCalled /\ Len(call.input) = 4)
        => /\ With(UndiscountedFee12(4, call.config.gas_price_components.l1_calldata_cost,
                                     call.config.l1_base_fee),
                   ReturnsInteger)
           /\ call.config = NewConfig(U64(42161), U32(20), TwentyGwei)
                  => call.out = <<Ok(Rep(0, 24) \o <<0, 0, 1, 42, 5, 242, 0, 0>>)>>

\* C15: in the run of main the configuration is created once and validated
\* once before it is used: every configuration handed to handle_call or
\* used to build the transaction processed has passed validate() (so none
\* with a zero chain id, ArbOS version or L1 base fee reaches a handler),
\* and it is the configuration created, unchanged.
C15_ValidatedThenUsed ==
    /\ boot.pc \notin {"idle", "parsed"} => boot.created = 1
    /\ \A k \in 1..Len(boot.uses) :
           /\ boot.validations = 1
           /\ Validate(boot.uses[k].config).ok
           /\ boot.uses[k].config = boot.config[1]

(***************************************************************************)
(* Properties of the ArbGasInfo price getters.                             *)
(***************************************************************************)
\* a call whose first four bytes are selector reached ArbGasInfo
GasInfoCalled(selector) ==
    /\ call.pc = "called"
    /\ Reached = "ArbGasInfo"
    /\ Len(call.input) >= 4
    /\ SubSeq(call.input, 1, 4) = selector

\* the n-th 32-byte word of val
Word(val, n) == SubSeq(val, 32 * n - 31, 32 * n)

\* word is the 32-byte big-endian form of the u64 x
IsU64Word(word, x) == Len(word) = 32 /\ word = [i \in 1..32 |-> IF i <= 24 THEN 0 ELSE x[i - 24]]

\* word is the integer whose 44 base-2^12 digits are prod, which is below
\* 2^256
IsExactProduct(word, prod) ==
    /\ \A k \in 1..22 : prod[k] = 0
    /\ prod[23] <= 15
    /\ Digits12(word) = SubSeq(prod, 23, 44)

\* word is the integer whose base-2^24 digit sums are sums, which is below
\* 2^256
IsExactSum(word, sums) ==
    /\ sums[1] <= 65535
    /\ Digits(word) = [k \in 1..11 |-> sums[k] % 16777216]

\* C21: getPricesInWei returns, for every configuration, 192 bytes: the
\* words l2_base_fee, l1_calldata_cost, l1_base_fee * l1_calldata_cost,
\* l2_base_fee, congestion_fee and l2_base_fee + congestion_fee, the
\* product and the sum being the exact integers (nothing saturates).
C21_PricesInWei ==
    GasInfoCalled(<<65, 178, 71, 168>>)
        => /\ ~call.panic
           /\ call.out # <<>>
           /\ call.out[1].ok
           /\ Len(call.out[1].val) = 192
           /\ IsU64Word(Word(call.out[1].val, 1), call.config.gas_price_components.l2_base_fee)
           /\ IsU64Word(Word(call.out[1].val, 2),
                        call.config.gas_price_components.l1_calldata_cost)
           /\ With(Product12(Rep(0, 24) \o call.config.l1_base_fee,
                             Rep(0, 24) \o call.config.gas_price_components.l1_calldata_cost),
                   LAMBDA prod : IsExactProduct(Word(call.out[1].val, 3), prod))
           /\ IsU64Word(Word(call.out[1].val, 4), call.config.gas_price_components.l2_base_fee)
           /\ IsU64Word(Word(call.out[1].val, 5),
                        call.config.gas_price_components.congestion_fee)
           /\ IsExactSum(Word(call.out[1].val, 6),
                         DigitSums(Digits(Rep(0, 24)
                                          \o call.config.gas_price_components.l2_base_fee),
                                   Digits(Rep(0, 24)
                                          \o call.config.gas_price_components.congestion_fee)))

\* the largest product: (2^64 - 1)^2 = 2^128 - 2^65 + 1 in the third word
C21_Witness ==
    /\ GasInfoCalled(<<65, 178, 71, 168>>)
    /\ call.config.l1_base_fee = Rep(255, 8)
    /\ call.config.gas_price_components.l1_calldata_cost = Rep(255, 8)
    /\ call.out # <<>>
    /\ call.out[1].ok
    /\ Word(call.out[1].val, 3)
           = Rep(0, 16) \o Rep(255, 7) \o <<254>> \o Rep(0, 7) \o <<1>>

\* the largest sum: 2 * (2^64 - 1) = 2^65 - 2 in the sixth word, the
\* fourth and the fifth being 2^64 - 1
C21_WitnessSum ==
    /\ GasInfoCalled(<<65, 178, 71, 168>>)
    /\ call.config.gas_price_components.l2_base_fee = Rep(255, 8)
    /\ call.config.gas_price_components.congestion_fee = Rep(255, 8)
    /\ call.out # <<>>
    /\ call.out[1].ok
    /\ Word(call.out[1].val, 4) = Rep(0, 24) \o Rep(255, 8)
    /\ Word(call.out[1].val, 6) = Rep(0, 23) \o <<1>> \o Rep(255, 7) \o <<254>>

(***************************************************************************)
(* Properties of the successful results.                                   *)
(***************************************************************************)
\* x <= y for two big-endian integers of the same length
LeqBE(x, y) ==
    \/ x = y
    \/ \E i \in 1..Len(x) : x[i] < y[i] /\ \A j \in 1..(i - 1) : x[j] = y[j]

\* C24: every successful ProcessingResult carries its envelope and has
\* 0 < gas_used <= gas_limit of that envelope; no envelope with a zero gas
\* limit has a successful result.
C24_GasWithinLimit ==
    \A i \in DOMAIN result :
        /\ result[i].success =>
               /\ Len(result[i].transaction) = 1
               /\ Len(result[i].gas_used) = 8
               /\ \E k \in 1..8 : result[i].gas_used[k] # 0
               /\ LeqBE(result[i].gas_used, result[i].transaction[1].gas_limit)
        /\ (parsed # <<>> /\ parsed[1].ok /\ parsed[1].val.gas_limit = [k \in 1..8 |-> 0])
               => ~result[i].success

\* 56 data bytes need more gas than the limit of 21000: the limit is
\* reported
C24_Witness ==
    /\ pc = "done"
    /\ Len(result) = 1
    /\ result[1].success
    /\ Len(result[1].transaction[1].data) = LongDataLen
    /\ result[1].transaction[1].gas_limit = <<0, 0, 0, 0, 0, 0, 82, 8>>
    /\ result[1].gas_used = <<0, 0, 0, 0, 0, 0, 82, 8>>

\* an envelope with a zero gas limit was rejected by the validation
C24_WitnessZeroLimit ==
    /\ pc = "done"
    /\ parsed # <<>>
    /\ parsed[1].ok
    /\ parsed[1].val.gas_limit = [k \in 1..8 |-> 0]
    /\ Len(result) = 1
    /\ ~result[1].success
    /\ stages = <<"decode", "validate">>

(***************************************************************************)
(* Canonical decoding.                                                     *)
(***************************************************************************)
\* raw is the type byte, a list header and exactly 13 items, with nothing
\* else inside or after the list, and each of the four 32-byte-integer
\* items is a string of 32 bytes
ThirteenExactItems ==
    /\ raw # <<>>
    /\ With(Drop(raw, 1),
            LAMBDA body :
                With(ListItems(body),
                     LAMBDA its :
                         /\ Len(its) = TX7E_FIELDS
                         /\ PayloadInfo(body).ok
                         /\ PayloadInfo(body).value_len = Len(Concat(its))
                         /\ Len(body) = PayloadInfo(body).header_len + Len(Concat(its))
                         /\ \A i \in {3, 8, 9, 11} :
                                Len(its[i]) = 33 /\ its[i][1] = 128 + 32))

\* C25: every byte string that parses is the type byte 0x7e followed by
\* the RLP encoding of the envelope it parses to: no 32-byte-integer field
\* of another length and no byte after the list is accepted.
C25_CanonicalDecode ==
    (parsed # <<>> /\ parsed[1].ok)
        => raw = <<TX_TYPE_0X7E>> \o RlpEncode(parsed[1].val)

\* C25 as amended: a byte string that parses and consists of the type
\* byte, a list header and exactly 13 items, the four 32-byte integers
\* being sent with 32 bytes, is the type byte followed by the RLP encoding
\* of the envelope it parses to.
C25_CanonicalItems ==
    (parsed # <<>> /\ parsed[1].ok /\ ThirteenExactItems)
        => raw = <<TX_TYPE_0X7E>> \o RlpEncode(parsed[1].val)

\* a sender's list of 13 exact items that parses to an envelope other
\* than the caller's
C25_Witness ==
    /\ parsed # <<>>
    /\ parsed[1].ok
    /\ ThirteenExactItems
    /\ wireEdits > 0
    /\ parsed[1].val # tx
    /\ raw = <<TX_TYPE_0X7E>> \o RlpEncode(parsed[1].val)

\* the spellings accepted besides the encoding: a 1-byte and a 33-byte
\* integer item, a byte after the list, a cut item inside the list
C25_WitnessSpellings ==
    /\ parsed # <<>>
    /\ parsed[1].ok
    /\ raw # <<TX_TYPE_0X7E>> \o RlpEncode(parsed[1].val)
    /\ \/ items[3] = <<1>> /\ parsed[1].val.value = Rep(0, 31) \o <<1>>
       \/ Len(items[3]) = 34 /\ parsed[1].val.value = Rep(7, 32)
       \/ Len(raw) > 1 + Len(EncodeList(items)) /\ raw[Len(raw)] = 0
       \/ Len(raw) > 1 + Len(EncodeList(items)) /\ raw[Len(raw)] = 184

(***************************************************************************)
(* The startup demonstration.                                              *)
(***************************************************************************)
\* the use is a precompile call that ended in the unknown-selector error
IsUnknownSelector(use) ==
    /\ ~use.out.ok
    /\ use.out.err # <<>>
    /\ use.out.err[1] = "Unknown function selector: 0x"

\* the use is a precompile call that returned the 32-byte word of the
\* integer with the big-endian bytes x
ReturnsWord(use, x) ==
    /\ use.out.ok
    /\ use.out.val = [i \in 1..32 |-> IF i <= 32 - Len(x) THEN 0 ELSE x[i - (32 - Len(x))]]

\* C27: in the demonstration run with a valid configuration the call
\* labelled arbChainID() returns config.chain_id, the one labelled
\* arbOSVersion() returns config.arb_os_version and the one labelled
\* getL1BaseFeeEstimate() returns config.l1_base_fee, each as a 32-byte
\* word; none of them ends in the unknown-selector error.
C27_DemoLabels ==
    (boot.pc \notin {"idle", "parsed"} /\ Validate(boot.config[1]).ok)
        => /\ Len(boot.uses) >= 1
               => /\ ReturnsWord(boot.uses[1], boot.config[1].chain_id)
                  /\ ~IsUnknownSelector(boot.uses[1])
           /\ Len(boot.uses) >= 2
               => /\ ReturnsWord(boot.uses[2], boot.config[1].arb_os_version)
                  /\ ~IsUnknownSelector(boot.uses[2])
           /\ Len(boot.uses) >= 3
               => /\ ReturnsWord(boot.uses[3], boot.config[1].l1_base_fee)
                  /\ ~IsUnknownSelector(boot.uses[3])

\* what follows the four selector bytes of the input of the call
CallPayload == SubSeq(call.input, 5, Len(call.input))

\* C22: the two WithAggregator selectors are aliases: for every
\* configuration and payload ArbGasInfo answers 43a28b2e as it answers
\* 41b247a8 with the same payload, and 12f78baa as it answers 02199f34,
\* whose result is the three words l2_base_fee, l1_calldata_cost and
\* l1_storage_cost.
C22_Aliases ==
    /\ GasInfoCalled(<<67, 162, 139, 46>>)
           => /\ ~call.panic
              /\ call.out = <<ArbGasInfoHandleCall(<<65, 178, 71, 168>> \o CallPayload,
                                                   call.config)>>
    /\ GasInfoCalled(<<18, 247, 139, 170>>)
           => /\ ~call.panic
              /\ call.out = <<ArbGasInfoHandleCall(<<2, 25, 159, 52>> \o CallPayload,
                                                   call.config)>>
    /\ GasInfoCalled(<<2, 25, 159, 52>>)
           => /\ ~call.panic
              /\ call.out # <<>>
              /\ call.out[1].ok
              /\ Len(call.out[1].val) = 96
              /\ IsU64Word(Word(call.out[1].val, 1),
                           call.config.gas_price_components.l2_base_fee)
              /\ IsU64Word(Word(call.out[1].val, 2),
                           call.config.gas_price_components.l1_calldata_cost)
              /\ IsU64Word(Word(call.out[1].val, 3),
                           call.config.gas_price_components.l1_storage_cost)

\* getPricesInWeiWithAggregator with a payload under an edited configuration
\* returned the six words
C22_Witness ==
    /\ GasInfoCalled(<<67, 162, 139, 46>>)
    /\ CallPayload = <<255, 0, 1>>
    /\ call.config.l1_base_fee = U64MaxValue
    /\ call.out # <<>>
    /\ call.out[1].ok
    /\ Len(call.out[1].val) = 192

\* getPricesInArbGasWithAggregator returned the storage cost 1 in its third
\* word
C22_WitnessArbGas ==
    /\ GasInfoCalled(<<18, 247, 139, 170>>)
    /\ call.config.gas_price_components.l1_storage_cost = U64(1)
    /\ call.out # <<>>
    /\ call.out[1].ok
    /\ Word(call.out[1].val, 3) = Rep(0, 31) \o <<1>>

\* the entry of the log is a call of the registry
IsRegistryCall(entry) == entry.op \in {"handle_call", "gas_cost", "has_handler", "get_addresses"}

\* the registry and the configuration found after the k-th entry of the log
AfterEntry(k) == IF k < Len(call.log) THEN call.log[k + 1] ELSE call

\* the two entries are handle_call calls with the same address and input
SameCall(a, b) ==
    /\ a.op = "handle_call"
    /\ b.op = "handle_call"
    /\ a.address = b.address
    /\ a.input = b.input

C23_WitnessError ==
    /\ Len(call.log) = 3
    /\ SameCall(call.log[1], call.log[3])
    /\ call.log[2].op = "gas_cost"
    /\ call.log[1].out # <<>>
    /\ ~call.log[1].out[1].ok
    /\ call.log[3].out = call.log[1].out

\* the two configurations differ at most in their precompiles map
SameButPrecompiles(a, b) == [a EXCEPT !.precompiles = b.precompiles] = b

\* C26: handle_call does not read the precompile descriptors of the
\* configuration: two calls whose configurations differ only in the
\* precompiles map (a descriptor disabled or removed) end alike, and a
\* call at the address of a registered handler whose descriptor is disabled
\* or absent is served as it is under the default descriptors.
C26_DescriptorsIgnored ==
    /\ \A i, j \in DOMAIN call.log :
           (/\ SameCall(call.log[i], call.log[j])
            /\ SameButPrecompiles(call.log[i].config, call.log[j].config))
               => /\ call.log[i].panic = call.log[j].panic
                  /\ call.log[i].out = call.log[j].out
    /\ \A k \in DOMAIN call.log :
           (/\ call.log[k].op = "handle_call"
            /\ HasHandler(call.log[k].handlers, call.log[k].address)
            /\ ~IsPrecompileEnabled(call.log[k].config, AddressDisplay(call.log[k].address))
            /\ ~call.log[k].panic)
               => call.log[k].out
                      = <<RegistryHandleCall(call.log[k].handlers, call.log[k].address,
                                             call.log[k].input,
                                             [call.log[k].config
                                                  EXCEPT !.precompiles = DefaultPrecompiles])>>

\* arbChainID was served with the ArbSys descriptor enabled, then the
\* descriptor was disabled, and the same call was served again
C26_Witness ==
    /\ Len(call.log) = 3
    /\ SameCall(call.log[1], call.log[3])
    /\ call.log[1].address = ArbSysHandler.address
    /\ IsPrecompileEnabled(call.log[1].config, PrecompileKey(<<"6", "4">>))
    /\ call.log[2].op = "disable"
    /\ GetPrecompile(call.log[3].config, AddressDisplay(call.log[3].address)) # <<>>
    /\ ~IsPrecompileEnabled(call.log[3].config, AddressDisplay(call.log[3].address))
    /\ call.log[3].out # <<>>
    /\ call.log[3].out[1].ok

\* getPricesInArbGas was served after the ArbGasInfo descriptor was removed
C26_WitnessRemoved ==
    /\ Len(call.log) = 3
    /\ SameCall(call.log[1], call.log[3])
    /\ call.log[2].op = "remove"
    /\ call.log[3].address = ArbGasInfoHandler.address
    /\ GetPrecompile(call.log[3].config, AddressDisplay(call.log[3].address)) = <<>>
    /\ call.log[3].out # <<>>
    /\ call.log[3].out[1].ok
    /\ Len(call.log[3].out[1].val) = 96

====
